---- MODULE Spec2Model ----
(***************************************************************************)
(* Model of ApiClient (services/ApiClient.ts, the variant with             *)
(* interceptors): the three interceptor chains, the four verbs and the     *)
(* response/error normalisation; of GraphQLClient and CubeGraphQLClient;   *)
(* and of the query synthesizer (utils/graphqlHelpers.ts).                 *)
(*                                                                         *)
(* Three specifications: Spec (every interceptor, one call per outcome of  *)
(* the overload resolution), SpecInputs (the README's interceptors, every  *)
(* argument combination and payload kind), SpecGraphQL (the GraphQL        *)
(* clients next to an ApiClient with interceptors).                        *)
(*                                                                         *)
(* JavaScript values are encoded as follows:                               *)
(*   - an object is a TLA+ function from its keys; `k in o` is             *)
(*     k \in DOMAIN o, and a key holding undefined is an absent key;       *)
(*   - an optional value is None (undefined) or Some(v);                   *)
(*   - a string built by concatenation (message, header trail) is the      *)
(*     sequence of its pieces;                                             *)
(*   - request payloads are tokens, the falsy ones being those of Falsy.   *)
(***************************************************************************)
EXTENDS Integers, Sequences, FiniteSets, TLC

\* State of the client and of the calls made on it.
VARIABLES
    requestInterceptors,    \* ApiClient.requestInterceptors
    responseInterceptors,   \* ApiClient.responseInterceptors
    errorInterceptors,      \* ApiClient.errorInterceptors
    call,                   \* the verb call in progress (or the last one)
    history,                \* observer: the last registry operation
    gql,                    \* the GraphQL client call in progress
    second,                 \* a second verb call in flight on the same client
    synth,                  \* the last call of a query-synthesizer function
    other,                  \* the chains of another ApiClient instance
    storage,                \* the StorageService singleton
    now                     \* Date.now(), in hours since the module was loaded

\* Bound on the number of interceptors registered on the client at one time.
MaxRegistered == 3

None == <<>>
Some(v) == <<v>>

\* JavaScript falsy payload/url tokens: '', 0, false, null.
Falsy == {"", "0", "false", "null"}
Truthy(v) == v \notin Falsy

\* a || b on optional tokens: a when a is present and truthy, else b.
OrElse(a, b) == IF a # None /\ Truthy(a[1]) THEN a ELSE b

\* a || b on optional objects (every object is truthy).
OrElseObj(a, b) == IF a # None THEN a ELSE b

Field(o, k) == IF k \in DOMAIN o THEN Some(o[k]) ELSE None

Without(o, ks) == [k \in DOMAIN o \ ks |-> o[k]]

DefaultSuccessMessage == <<"Operacao realizada com sucesso">>
DefaultErrorMessage == <<"Ocorreu um erro na requisicao">>

\* What an interceptor or a callback throws: a plain Error, which has no
\* `response` and no `code`.
ThrownError == [thrown |-> "Error"]

(***************************************************************************)
(* The interceptor functions a caller registers.  Each identifier is one   *)
(* function object (identity is the identifier).                           *)
(***************************************************************************)
RequestFns == {"rqOverride", "rqFalsy", "rqDelete", "rqThrow"}
ResponseFns == {"rsTagA", "rsTagB", "rsThrow"}
ErrorFns == {"erTagA", "erTagB", "erThrow", "erPromote"}

Stamp(config, fn) ==
    [config EXCEPT !.headers = Append(@, fn)]

\* A request interceptor: [raised, value].  Every returning interceptor
\* appends its name to the header trail (config.headers = {...headers, X}).
RequestInterceptor(fn, config) ==
    CASE fn = "rqOverride" ->
           [raised |-> FALSE,
            value |-> ("url" :> "/alt" @@ "data" :> "altData"
                       @@ "params" :> {"_t"} @@ "timeout" :> 5
                       @@ "method" :> "PATCH" @@ Stamp(config, fn))]
      [] fn = "rqFalsy" ->
           [raised |-> FALSE,
            value |-> ("url" :> "" @@ "data" :> "0" @@ Stamp(config, fn))]
      [] fn = "rqDelete" ->
           [raised |-> FALSE,
            value |-> Without(Stamp(config, fn), {"url", "data", "params"})]
      [] OTHER -> [raised |-> TRUE, value |-> config]

\* A response interceptor: returns {...response, message: message + tag}.
ResponseInterceptor(fn, response) ==
    CASE fn = "rsTagA" ->
           [raised |-> FALSE,
            value |-> [response EXCEPT !.message = Append(@, "A")]]
      [] fn = "rsTagB" ->
           [raised |-> FALSE,
            value |-> [response EXCEPT !.message = Append(@, "B")]]
      [] OTHER -> [raised |-> TRUE, value |-> response]

RecoveryResponse ==
    [data |-> [message |-> <<"Token renovado">>],
     status |-> 200,
     message |-> <<"Autenticacao renovada">>]

\* The value of a function that returns nothing.
JsUndefined == [jstype |-> "undefined"]

\* An error interceptor: returns {...error, message: message + tag}, raises,
\* returns a Response (README, "refresh token automatico"), or returns
\* nothing.
ErrorInterceptor(fn, error) ==
    CASE fn = "erTagA" ->
           [raised |-> FALSE,
            value |-> [error EXCEPT !.message = Append(@, "A")]]
      [] fn = "erTagB" ->
           [raised |-> FALSE,
            value |-> [error EXCEPT !.message = Append(@, "B")]]
      [] fn = "erPromote" ->
           [raised |-> FALSE, value |-> RecoveryResponse]
      [] fn = "erVoid" ->
           [raised |-> FALSE, value |-> JsUndefined]
      [] OTHER -> [raised |-> TRUE, value |-> error]


(***************************************************************************)
(* Normalizer.                                                             *)
(***************************************************************************)
\* Variant of extractErrorData without the `|| 500`: the status of a failure
\* that has no response stays undefined (0 here).
extractErrorData_NoStatusDefault(error) ==
    LET hasResponse == "response" \in DOMAIN error
        payload == IF hasResponse THEN Some(error.response.data) ELSE None
        ownMessage == IF payload # None /\ "message" \in DOMAIN payload[1]
                         /\ payload[1].message # <<>>
                      THEN Some(payload[1].message) ELSE None
    IN [message |-> IF ownMessage # None THEN ownMessage[1]
                    ELSE DefaultErrorMessage,
        status |-> IF hasResponse THEN error.response.status ELSE 0,
        code |-> Field(error, "code"),
        details |-> payload]

\* (error.response?.data)?.message || default; error.response?.status || 500
extractErrorData(error) ==
    LET hasResponse == "response" \in DOMAIN error
        payload == IF hasResponse THEN Some(error.response.data) ELSE None
        ownMessage == IF payload # None /\ "message" \in DOMAIN payload[1]
                         /\ payload[1].message # <<>>
                      THEN Some(payload[1].message) ELSE None
    IN [message |-> IF ownMessage # None THEN ownMessage[1]
                    ELSE DefaultErrorMessage,
        status |-> IF hasResponse /\ error.response.status # 0
                   THEN error.response.status ELSE 500,
        code |-> Field(error, "code"),
        details |-> payload]

\* Payloads that are not maps: null, a string, a number, an array.  None of
\* them has a `message` property; reading a property of null raises.
JsNull == [jstype |-> "null"]
JsString == [jstype |-> "string", text |-> "pong"]
JsNumber == [jstype |-> "number", number |-> 7]
JsArray == [jstype |-> "array", items |-> <<"a", "b">>]

IsMap(payload) == "jstype" \notin DOMAIN payload

\* `responseData.message` with responseData === null: TypeError.
extractResponseDataRaises(response) == response.data = JsNull

\* responseData.message || default (for a payload whose `message` can be
\* read, see extractResponseDataRaises)
extractResponseData(response) ==
    [data |-> response.data,
     status |-> response.status,
     message |-> IF "message" \in DOMAIN response.data
                    /\ response.data.message # <<>>
                 THEN response.data.message ELSE DefaultSuccessMessage]

(***************************************************************************)
(* Query synthesizer (utils/graphqlHelpers.ts).  A text is the sequence of *)
(* its pieces; an object whose key order matters (fields, where) is the    *)
(* sequence of its <<key, value>> entries.                                 *)
(***************************************************************************)
\* '' is the only falsy string.
Blank(text) == \A i \in DOMAIN text : text[i] = ""

\* Array.prototype.filter(Boolean) on texts
FilterBoolean(texts) == SelectSeq(texts, LAMBDA t : ~Blank(t))

\* Array.prototype.join
RECURSIVE Join(_, _)
Join(texts, separator) ==
    IF texts = <<>> THEN <<>>
    ELSE IF Len(texts) = 1 THEN texts[1]
    ELSE texts[1] \o separator \o Join(Tail(texts), separator)

\* JavaScript values: a string, a number, a boolean, undefined, or an array
\* of those.
StringValue(text) == [kind |-> "string", text |-> text]
NumberValue(n) == [kind |-> "number", number |-> n]
BooleanValue(b) == [kind |-> "boolean", bool |-> b]
ArrayValue(items) == [kind |-> "array", items |-> items]
Undefined == [kind |-> "undefined"]

\* The truthiness test of filter(([, selected]) => selected)
IsTruthy(value) ==
    CASE value.kind = "boolean" -> value.bool
      [] value.kind = "number" -> value.number # 0
      [] value.kind = "string" -> value.text # ""
      [] value.kind = "undefined" -> FALSE
      [] OTHER -> TRUE

\* Variant of JsonStringify that renders a string without its quotes.
JsonStringify_Unquoted(value) ==
    CASE value.kind = "string" -> <<value.text>>
      [] value.kind = "number" -> <<ToString(value.number)>>
      [] value.kind = "boolean" -> <<IF value.bool THEN "true" ELSE "false">>
      [] OTHER -> <<"undefined">>

\* JSON.stringify of a scalar, as the template literal renders it
JsonStringify(value) ==
    CASE value.kind = "string" -> <<"\"", value.text, "\"">>
      [] value.kind = "number" -> <<ToString(value.number)>>
      [] value.kind = "boolean" -> <<IF value.bool THEN "true" ELSE "false">>
      [] OTHER -> <<"undefined">>

\* String(x), as Array.prototype.join renders an element
ToText(value) ==
    CASE value.kind = "string" -> <<value.text>>
      [] value.kind = "number" -> <<ToString(value.number)>>
      [] value.kind = "boolean" -> <<IF value.bool THEN "true" ELSE "false">>
      [] OTHER -> <<>>

\* Variant of buildFields without the `selectedFields ? ... : ''` test: an
\* entity with no selected field is rendered as an empty block.
buildFields_EmptyBlocks(fields) ==
    LET block(entry) ==
            LET selected == SelectSeq(entry[2], LAMBDA f : IsTruthy(f[2]))
                selectedFields ==
                    Join([i \in DOMAIN selected |-> <<selected[i][1]>>],
                         <<"\n      ">>)
            IN <<"    ", entry[1], " {\n      ">> \o selectedFields
                  \o <<"\n    }">>
    IN Join(FilterBoolean([i \in DOMAIN fields |-> block(fields[i])]),
            <<"\n">>)

buildFields(fields) ==
    LET block(entry) ==
            LET selected == SelectSeq(entry[2], LAMBDA f : IsTruthy(f[2]))
                selectedFields ==
                    Join([i \in DOMAIN selected |-> <<selected[i][1]>>],
                         <<"\n      ">>)
            IN IF ~Blank(selectedFields)
               THEN <<"    ", entry[1], " {\n      ">> \o selectedFields
                        \o <<"\n    }">>
               ELSE <<>>
    IN Join(FilterBoolean([i \in DOMAIN fields |-> block(fields[i])]),
            <<"\n">>)

buildWhereClause(where) ==
    LET condition(pair) ==
            IF pair[2].kind = "array"
            THEN <<pair[1], ": [">>
                    \o Join([i \in DOMAIN pair[2].items |->
                                ToText(pair[2].items[i])], <<", ">>)
                    \o <<"]">>
            ELSE <<pair[1], ": ">> \o JsonStringify(pair[2])
        filter(entry) ==
            <<entry[1], ": {">>
                \o Join([i \in DOMAIN entry[2] |-> condition(entry[2][i])],
                        <<", ">>)
                \o <<"}">>
        entity(entry) ==
            LET filters == Join([i \in DOMAIN entry[2] |-> filter(entry[2][i])],
                                <<", ">>)
            IN IF ~Blank(filters)
               THEN <<entry[1], ": {">> \o filters \o <<"}">>
               ELSE <<>>
        conditions ==
            Join(FilterBoolean([i \in DOMAIN where |-> entity(where[i])]),
                 <<", ">>)
    IN IF ~Blank(conditions)
       THEN <<"where: {">> \o conditions \o <<"}">>
       ELSE <<>>

\* Variant of buildCubeQuery that tests limit and offset with `!== undefined`:
\* a clause is rendered for 0 as well.
buildCubeQuery_DefinedLimit(options) ==
    LET has(k) == k \in DOMAIN options
        whereClause == buildWhereClause(IF has("where") THEN options.where
                                        ELSE <<>>)
        selectedFields == buildFields(IF has("fields") THEN options.fields
                                      ELSE <<>>)
        limitClause == IF has("limit")
                       THEN <<"limit: ", ToString(options.limit)>> ELSE <<>>
        offsetClause == IF has("offset")
                        THEN <<"offset: ", ToString(options.offset)>> ELSE <<>>
        params == Join(FilterBoolean(<<limitClause, offsetClause, whereClause>>),
                       <<"\n        ">>)
        defaultFieldsString ==
            IF has("defaultFields")
            THEN <<"    ",
                   IF has("defaultEntity") THEN options.defaultEntity
                   ELSE "undefined",
                   " {\n      ">>
                    \o Join([i \in DOMAIN options.defaultFields |->
                                <<options.defaultFields[i]>>], <<"\n      ">>)
                    \o <<"\n    }">>
            ELSE <<>>
    IN <<"query CubeQuery {\n      cube">>
        \o (IF ~Blank(params)
            THEN <<"(\n        ">> \o params \o <<"\n      )">> ELSE <<>>)
        \o <<" {\n">>
        \o (IF ~Blank(selectedFields) THEN selectedFields
            ELSE defaultFieldsString)
        \o <<"\n      }\n    }">>

\* Variant of buildCubeQuery that lists the offset clause before the limit
\* clause.
buildCubeQuery_OffsetFirst(options) ==
    LET has(k) == k \in DOMAIN options
        whereClause == buildWhereClause(IF has("where") THEN options.where
                                        ELSE <<>>)
        selectedFields == buildFields(IF has("fields") THEN options.fields
                                      ELSE <<>>)
        limitClause == IF has("limit") /\ options.limit # 0
                       THEN <<"limit: ", ToString(options.limit)>> ELSE <<>>
        offsetClause == IF has("offset") /\ options.offset # 0
                        THEN <<"offset: ", ToString(options.offset)>> ELSE <<>>
        params == Join(FilterBoolean(<<offsetClause, limitClause, whereClause>>),
                       <<"\n        ">>)
        defaultFieldsString ==
            IF has("defaultFields")
            THEN <<"    ",
                   IF has("defaultEntity") THEN options.defaultEntity
                   ELSE "undefined",
                   " {\n      ">>
                    \o Join([i \in DOMAIN options.defaultFields |->
                                <<options.defaultFields[i]>>], <<"\n      ">>)
                    \o <<"\n    }">>
            ELSE <<>>
    IN <<"query CubeQuery {\n      cube">>
        \o (IF ~Blank(params)
            THEN <<"(\n        ">> \o params \o <<"\n      )">> ELSE <<>>)
        \o <<" {\n">>
        \o (IF ~Blank(selectedFields) THEN selectedFields
            ELSE defaultFieldsString)
        \o <<"\n      }\n    }">>

\* Variant of buildCubeQuery that reuses the clause the last call of
\* buildWhereClause left behind instead of rendering options.where.
buildCubeQuery_StaleWhere(options) ==
    LET has(k) == k \in DOMAIN options
        whereClause == IF synth.fn = "buildWhereClause" THEN synth.output
                       ELSE buildWhereClause(IF has("where")
                                             THEN options.where ELSE <<>>)
        selectedFields == buildFields(IF has("fields") THEN options.fields
                                      ELSE <<>>)
        limitClause == IF has("limit") /\ options.limit # 0
                       THEN <<"limit: ", ToString(options.limit)>> ELSE <<>>
        offsetClause == IF has("offset") /\ options.offset # 0
                        THEN <<"offset: ", ToString(options.offset)>> ELSE <<>>
        params == Join(FilterBoolean(<<limitClause, offsetClause, whereClause>>),
                       <<"\n        ">>)
        defaultFieldsString ==
            IF has("defaultFields")
            THEN <<"    ",
                   IF has("defaultEntity") THEN options.defaultEntity
                   ELSE "undefined",
                   " {\n      ">>
                    \o Join([i \in DOMAIN options.defaultFields |->
                                <<options.defaultFields[i]>>], <<"\n      ">>)
                    \o <<"\n    }">>
            ELSE <<>>
    IN <<"query CubeQuery {\n      cube">>
        \o (IF ~Blank(params)
            THEN <<"(\n        ">> \o params \o <<"\n      )">> ELSE <<>>)
        \o <<" {\n">>
        \o (IF ~Blank(selectedFields) THEN selectedFields
            ELSE defaultFieldsString)
        \o <<"\n      }\n    }">>

\* The template literal of buildCubeQuery after trim().
buildCubeQuery(options) ==
    LET has(k) == k \in DOMAIN options
        whereClause == buildWhereClause(IF has("where") THEN options.where
                                        ELSE <<>>)
        selectedFields == buildFields(IF has("fields") THEN options.fields
                                      ELSE <<>>)
        limitClause == IF has("limit") /\ options.limit # 0
                       THEN <<"limit: ", ToString(options.limit)>> ELSE <<>>
        offsetClause == IF has("offset") /\ options.offset # 0
                        THEN <<"offset: ", ToString(options.offset)>> ELSE <<>>
        params == Join(FilterBoolean(<<limitClause, offsetClause, whereClause>>),
                       <<"\n        ">>)
        defaultFieldsString ==
            IF has("defaultFields")
            THEN <<"    ",
                   IF has("defaultEntity") THEN options.defaultEntity
                   ELSE "undefined",
                   " {\n      ">>
                    \o Join([i \in DOMAIN options.defaultFields |->
                                <<options.defaultFields[i]>>], <<"\n      ">>)
                    \o <<"\n    }">>
            ELSE <<>>
    IN <<"query CubeQuery {\n      cube">>
        \o (IF ~Blank(params)
            THEN <<"(\n        ">> \o params \o <<"\n      )">> ELSE <<>>)
        \o <<" {\n">>
        \o (IF ~Blank(selectedFields) THEN selectedFields
            ELSE defaultFieldsString)
        \o <<"\n      }\n    }">>

(***************************************************************************)
(* Normalizers of GraphQLClient and CubeGraphQLClient.                     *)
(***************************************************************************)
\* value.key for an optional value: raises on undefined and on null.
Prop(value, key) ==
    IF value = None \/ value[1] = JsNull
    THEN [raised |-> TRUE, value |-> None]
    ELSE [raised |-> FALSE,
          value |-> IF IsMap(value[1]) THEN Field(value[1], key) ELSE None]

GraphQLClient_extractErrorData(error) ==
    LET hasResponse == "response" \in DOMAIN error
        payload == IF hasResponse THEN Some(error.response.data) ELSE None
        ownMessage == IF payload # None /\ "message" \in DOMAIN payload[1]
                         /\ payload[1].message # <<>>
                      THEN Some(payload[1].message) ELSE None
    IN [message |-> IF ownMessage # None THEN ownMessage[1]
                    ELSE DefaultErrorMessage,
        status |-> IF hasResponse /\ error.response.status # 0
                   THEN error.response.status ELSE 500,
        code |-> Field(error, "code"),
        details |-> payload]

\* { data: response.data.data, status, message: fixed }
GraphQLClient_extractResponseData(response) ==
    LET data == Prop(Some(response.data), "data")
    IN [raised |-> data.raised,
        value |-> [data |-> data.value, status |-> response.status,
                   message |-> DefaultSuccessMessage]]

\* Variant of CubeGraphQLClient_extractResponseData without the `.cube`
\* step.
CubeGraphQLClient_extractResponseData_NoUnwrap(response) ==
    LET data == Prop(Some(response.data), "data")
    IN [raised |-> data.raised,
        value |-> [data |-> data.value, status |-> response.status,
                   message |-> DefaultSuccessMessage]]

\* { data: response.data.data.cube, status, message: fixed }
CubeGraphQLClient_extractResponseData(response) ==
    LET data == Prop(Some(response.data), "data")
        cube == IF data.raised THEN data ELSE Prop(data.value, "cube")
    IN [raised |-> cube.raised,
        value |-> [data |-> cube.value, status |-> response.status,
                   message |-> DefaultSuccessMessage]]

(***************************************************************************)
(* Interceptor folds.  Each returns [raised, value, trace]: trace is the   *)
(* sequence of interceptor invocations made, with the argument each got.   *)
(***************************************************************************)
\* Variant of applyRequestInterceptors that hands every interceptor the
\* initial config instead of the accumulated one.
RECURSIVE applyRequestInterceptors_NoAccumulate(_, _)
applyRequestInterceptors_NoAccumulate(chain, config) ==
    IF chain = <<>>
    THEN [raised |-> FALSE, value |-> config, trace |-> <<>>]
    ELSE LET r == RequestInterceptor(Head(chain), config)
             e == [ev |-> "requestInterceptor", fn |-> Head(chain),
                   arg |-> config]
         IN IF r.raised
            THEN [raised |-> TRUE, value |-> config, trace |-> <<e>>]
            ELSE LET rest == applyRequestInterceptors_NoAccumulate(
                                 Tail(chain), config)
                 IN IF Tail(chain) = <<>>
                    THEN [raised |-> FALSE, value |-> r.value,
                          trace |-> <<e>>]
                    ELSE [rest EXCEPT !.trace = <<e>> \o @]

RECURSIVE applyRequestInterceptors(_, _)
applyRequestInterceptors(chain, config) ==
    IF chain = <<>>
    THEN [raised |-> FALSE, value |-> config, trace |-> <<>>]
    ELSE LET r == RequestInterceptor(Head(chain), config)
             e == [ev |-> "requestInterceptor", fn |-> Head(chain),
                   arg |-> config]
         IN IF r.raised
            THEN [raised |-> TRUE, value |-> config, trace |-> <<e>>]
            ELSE LET rest == applyRequestInterceptors(Tail(chain), r.value)
                 IN [rest EXCEPT !.trace = <<e>> \o @]

\* Variant of applyResponseInterceptors that folds from the right
\* (reduceRight): the last registered interceptor runs first.
RECURSIVE applyResponseInterceptors_Reversed(_, _)
applyResponseInterceptors_Reversed(chain, response) ==
    IF chain = <<>>
    THEN [raised |-> FALSE, value |-> response, trace |-> <<>>]
    ELSE LET fn == chain[Len(chain)]
             r == ResponseInterceptor(fn, response)
             e == [ev |-> "responseInterceptor", fn |-> fn,
                   arg |-> response]
         IN IF r.raised
            THEN [raised |-> TRUE, value |-> response, trace |-> <<e>>]
            ELSE LET rest == applyResponseInterceptors_Reversed(
                                 SubSeq(chain, 1, Len(chain) - 1), r.value)
                 IN [rest EXCEPT !.trace = <<e>> \o @]

RECURSIVE applyResponseInterceptors(_, _)
applyResponseInterceptors(chain, response) ==
    IF chain = <<>>
    THEN [raised |-> FALSE, value |-> response, trace |-> <<>>]
    ELSE LET r == ResponseInterceptor(Head(chain), response)
             e == [ev |-> "responseInterceptor", fn |-> Head(chain),
                   arg |-> response]
         IN IF r.raised
            THEN [raised |-> TRUE, value |-> response, trace |-> <<e>>]
            ELSE LET rest == applyResponseInterceptors(Tail(chain), r.value)
                 IN [rest EXCEPT !.trace = <<e>> \o @]

(***************************************************************************)
(* State.                                                                  *)
(***************************************************************************)
vars ==
    <<requestInterceptors, responseInterceptors, errorInterceptors, call,
      history, gql, second, synth, other, storage, now>>

NoError == [message |-> <<>>, status |-> 0, code |-> None, details |-> None]

\* iter/awaiting: position of the for..of iterator over the error chain and
\* the interceptor being awaited; detached: the array object the iterator
\* walks, once clearInterceptors has replaced this.errorInterceptors by a new
\* array (None while the iterator walks the live array).
\* pc: "idle" (no call yet), "transport" (awaiting this.api.<verb>),
\* "errorPhase" (awaiting an error interceptor), "done" (promise settled).
\* arg2/arg3: the second and third argument get/delete were called with.
\* options: the keys other than onSuccess/onError of the object post was
\* given as third argument, with their values.
\* started: the three chains as they were when the verb was called; caught:
\* the error chain as it was when the catch block was entered.
IdleCall ==
    [pc |-> "idle", method |-> "NONE", url |-> "", params |-> None,
     data |-> None, callbacks |-> {}, arg2 |-> None, arg3 |-> None,
     options |-> <<>>,
     started |-> <<<<>>, <<>>, <<>>>>, caught |-> None,
     error |-> NoError,
     processedError |-> NoError, iter |-> 0, awaiting |-> "", detached |-> None,
     pending |-> [raised |-> FALSE, value |-> NoError],
     promise |-> "none", log |-> <<>>]

\* pc: "idle", "firstPost" (CubeGraphQLClient.query awaiting its own post),
\* "transport" (GraphQLClient.query awaiting its post), "done".
\* requests: the number of transport requests the call has dispatched.
IdleGql ==
    [pc |-> "idle", client |-> "NONE", op |-> "NONE", url |-> None,
     text |-> <<>>, variables |-> None, callbacks |-> {}, requests |-> 0,
     promise |-> "none", log |-> <<>>]

\* fn: the synthesizer function called ("none" before the first call);
\* input: the argument it was called with; argument: the caller's object
\* once the call has returned; output: the text returned; repeat: the text
\* the call before returned, when that call was given the same function and
\* a structurally equal argument.
IdleSynth ==
    [fn |-> "none", input |-> <<>>, argument |-> <<>>, output |-> <<>>,
     repeat |-> None]

\* The three chain fields of a newly constructed ApiClient.
NewInstance ==
    [requestInterceptors |-> <<>>, responseInterceptors |-> <<>>,
     errorInterceptors |-> <<>>]

\* The token pair lives 24 hours from the load of the module.
TokenLifetime == 24

\* The field initialisers of StorageService.  lastCall: the method called
\* last, what it returned (None for null and for a method that returns
\* nothing) and whether it wrote the warning 'Token expirado'.
NoCall == [op |-> "none", returned |-> None, warned |-> FALSE]

NewStorage ==
    [tokens |-> Some([accessToken |-> "initial", expiresAt |-> TokenLifetime]),
     userData |-> Some([id |-> "123"]),
     lastCall |-> NoCall]

Registered ==
    Len(requestInterceptors) + Len(responseInterceptors)
        + Len(errorInterceptors)

Chains == <<requestInterceptors, responseInterceptors, errorInterceptors>>

\* history.lastOp: the registry operation that was the last thing done on the
\* client (op "none" once a verb has been called since), with the function it
\* was given and the three chains as they were before it.
\* history.cleared: clearInterceptors has been called and no add* since.
NoOp == [op |-> "none", fn |-> "", before |-> <<<<>>, <<>>, <<>>>>]

AddOps ==
    {"addRequestInterceptor", "addResponseInterceptor", "addErrorInterceptor"}

Record(op, fn) ==
    history' = [lastOp |-> [op |-> op, fn |-> fn, before |-> Chains],
                cleared |-> IF op = "clearInterceptors" THEN TRUE
                            ELSE IF op \in AddOps THEN FALSE
                            ELSE history.cleared]

Forget == history' = [history EXCEPT !.lastOp = NoOp]

Init ==
    /\ requestInterceptors = <<>>
    /\ responseInterceptors = <<>>
    /\ errorInterceptors = <<>>
    /\ call = IdleCall
    /\ history = [lastOp |-> NoOp, cleared |-> FALSE]
    /\ gql = IdleGql
    /\ second = IdleCall
    /\ synth = IdleSynth
    /\ other = NewInstance
    /\ storage = NewStorage
    /\ now = 0

(***************************************************************************)
(* Interceptor registry.                                                   *)
(***************************************************************************)
\* Variant of IndexOf that finds the last index holding fn (lastIndexOf).
IndexOf_Last(chain, fn) ==
    IF \E i \in 1..Len(chain) : chain[i] = fn
    THEN CHOOSE i \in 1..Len(chain) :
            chain[i] = fn /\ \A j \in (i + 1)..Len(chain) : chain[j] # fn
    ELSE 0

\* Array.prototype.indexOf: first index holding fn, 0 when absent.
IndexOf(chain, fn) ==
    IF \E i \in 1..Len(chain) : chain[i] = fn
    THEN CHOOSE i \in 1..Len(chain) :
            chain[i] = fn /\ \A j \in 1..(i - 1) : chain[j] # fn
    ELSE 0

\* splice(index, 1)
Splice(chain, index) ==
    [i \in 1..(Len(chain) - 1) |->
        IF i < index THEN chain[i] ELSE chain[i + 1]]

Remove(chain, fn) ==
    IF IndexOf(chain, fn) > 0 THEN Splice(chain, IndexOf(chain, fn))
    ELSE chain

addRequestInterceptor(fn) ==
    /\ Registered < MaxRegistered
    /\ requestInterceptors' = Append(requestInterceptors, fn)
    /\ UNCHANGED <<responseInterceptors, errorInterceptors, call>>
    /\ Record("addRequestInterceptor", fn)
    /\ UNCHANGED <<gql, second, synth, other, storage, now>>

addResponseInterceptor(fn) ==
    /\ Registered < MaxRegistered
    /\ responseInterceptors' = Append(responseInterceptors, fn)
    /\ UNCHANGED <<requestInterceptors, errorInterceptors, call>>
    /\ Record("addResponseInterceptor", fn)
    /\ UNCHANGED <<gql, second, synth, other, storage, now>>

\* Variant of addErrorInterceptor for a chain kept as a set of functions: a
\* function that is already registered is not registered again.
addErrorInterceptor_Unique(fn) ==
    /\ Registered < MaxRegistered
    /\ errorInterceptors' =
          IF \E i \in DOMAIN errorInterceptors : errorInterceptors[i] = fn
          THEN errorInterceptors ELSE Append(errorInterceptors, fn)
    /\ UNCHANGED <<requestInterceptors, responseInterceptors, call>>
    /\ Record("addErrorInterceptor", fn)
    /\ UNCHANGED <<gql, second, synth, other, storage, now>>

addErrorInterceptor(fn) ==
    /\ Registered < MaxRegistered
    /\ errorInterceptors' = Append(errorInterceptors, fn)
    /\ UNCHANGED <<requestInterceptors, responseInterceptors, call>>
    /\ Record("addErrorInterceptor", fn)
    /\ UNCHANGED <<gql, second, synth, other, storage, now>>

removeRequestInterceptor(fn) ==
    /\ requestInterceptors' = Remove(requestInterceptors, fn)
    /\ UNCHANGED <<responseInterceptors, errorInterceptors, call>>
    /\ Record("removeRequestInterceptor", fn)
    /\ UNCHANGED <<gql, second, synth, other, storage, now>>

removeResponseInterceptor(fn) ==
    /\ responseInterceptors' = Remove(responseInterceptors, fn)
    /\ UNCHANGED <<requestInterceptors, errorInterceptors, call>>
    /\ Record("removeResponseInterceptor", fn)
    /\ UNCHANGED <<gql, second, synth, other, storage, now>>

removeErrorInterceptor(fn) ==
    /\ errorInterceptors' = Remove(errorInterceptors, fn)
    /\ UNCHANGED <<requestInterceptors, responseInterceptors, call>>
    /\ Record("removeErrorInterceptor", fn)
    /\ UNCHANGED <<gql, second, synth, other, storage, now>>

\* Variant of clearInterceptors that resets the request and response chains
\* only.
clearInterceptors_KeepError ==
    /\ requestInterceptors' = <<>>
    /\ responseInterceptors' = <<>>
    /\ UNCHANGED <<errorInterceptors, call>>
    /\ Record("clearInterceptors", "")
    /\ UNCHANGED <<gql, second, synth, other, storage, now>>

\* The three fields are assigned fresh arrays: an iterator suspended in the
\* error phase keeps walking the array it started on.
clearInterceptors ==
    /\ requestInterceptors' = <<>>
    /\ responseInterceptors' = <<>>
    /\ errorInterceptors' = <<>>
    /\ call' = IF call.pc = "errorPhase" /\ call.detached = None
               THEN [call EXCEPT !.detached = Some(errorInterceptors)]
               ELSE call
    /\ Record("clearInterceptors", "")
    /\ UNCHANGED <<gql, second, synth, other, storage, now>>


(***************************************************************************)
(* Transport (axios) outcomes.                                             *)
(***************************************************************************)
TransportResponses ==
    {[status |-> 200, data |-> [id |-> "1", message |-> <<"ok">>]],
     [status |-> 201, data |-> [id |-> "1"]],
     [status |-> 200, data |-> JsNull]}

\* The same with the payloads that are neither a map nor null.
AnyPayloadResponses ==
    TransportResponses
        \cup {[status |-> 200, data |-> JsArray],
              [status |-> 200, data |-> JsString],
              [status |-> 200, data |-> JsNumber]}

TransportErrors ==
    {[response |-> [status |-> 404, data |-> [message |-> <<"not found">>]],
      code |-> "ERR_BAD_REQUEST"],
     [response |-> [status |-> 401, data |-> [id |-> "1"]],
      code |-> "ERR_BAD_REQUEST"],
     [code |-> "ECONNABORTED"]}

\* The same with a failure whose payload is not a map (a gateway's page).
AnyPayloadErrors ==
    TransportErrors
        \cup {[response |-> [status |-> 502, data |-> JsString],
               code |-> "ERR_BAD_RESPONSE"]}

(***************************************************************************)
(* Caller inputs.  A callbacks object and a params object are given by     *)
(* their key sets; the callbacks' behaviour (return or raise) is chosen    *)
(* when they are invoked.                                                  *)
(***************************************************************************)
CallbackKeys == {"onSuccess", "onError"}
Urls == {"/u"}
Payloads == {"d0"}
ParamObjects == {{"userId"}}
CallbackObjects == SUBSET CallbackKeys
SecondArguments ==
    {None} \cup {Some(o) : o \in ParamObjects \cup (CallbackObjects \ {{}})}
ThirdArguments == {None} \cup {Some(o) : o \in CallbackObjects}

\* Every way of calling get/delete(url, second, third).
AnyArguments == SecondArguments \X ThirdArguments

\* One call per outcome of the overload resolution: callbacks as second
\* argument, or params (or nothing) followed by callbacks.
VerbArguments ==
    {a \in AnyArguments :
        \/ a[2] = None
        \/ a[1] = Some({"userId"}) /\ a[2] # Some({})}

(***************************************************************************)
(* Error phase: the catch block of a verb and applyErrorInterceptors.      *)
(***************************************************************************)
\* Variant of Deliver without the `'data' in processedError` test: the
\* outcome of the error phase always goes to onError.
Deliver_AlwaysOnError(c, cbRaises) ==
    IF "onError" \in c.callbacks
    THEN [c EXCEPT
            !.log = Append(@, [ev |-> "onError", arg |-> c.processedError,
                               raised |-> cbRaises]),
            !.pc = "done",
            !.promise = IF cbRaises THEN "rejected" ELSE "fulfilled"]
    ELSE [c EXCEPT !.pc = "done", !.promise = "fulfilled"]

\* Variant of Deliver in which a recovery Response goes through the response
\* chain, like the Response of a successful transport, before onSuccess.
Deliver_ThroughResponseChain(c, cbRaises) ==
    LET recovered == "data" \in DOMAIN c.processedError
        cb == IF recovered THEN "onSuccess" ELSE "onError"
        r == applyResponseInterceptors(responseInterceptors, c.processedError)
        c1 == IF recovered THEN [c EXCEPT !.log = @ \o r.trace] ELSE c
        arg == IF recovered THEN r.value ELSE c.processedError
    IN IF cb \in c.callbacks
       THEN [c1 EXCEPT
               !.log = Append(@, [ev |-> cb, arg |-> arg, raised |-> cbRaises]),
               !.pc = "done",
               !.promise = IF cbRaises THEN "rejected" ELSE "fulfilled"]
       ELSE [c1 EXCEPT !.pc = "done", !.promise = "fulfilled"]

\* if ('data' in processedError) onSuccess?.(..) else onError?.(..)
\* A raising callback rejects the promise of the call; so does the `in` test
\* itself, a TypeError inside the catch block, when processedError is not an
\* object.
Deliver(c, cbRaises) ==
    LET cb == IF "data" \in DOMAIN c.processedError
              THEN "onSuccess" ELSE "onError"
    IN IF ~IsMap(c.processedError)
       THEN [c EXCEPT !.log = Append(@, [ev |-> "TypeError"]),
                      !.pc = "done", !.promise = "rejected"]
       ELSE IF cb \in c.callbacks
       THEN [c EXCEPT
               !.log = Append(@, [ev |-> cb, arg |-> c.processedError,
                                  raised |-> cbRaises]),
               !.pc = "done",
               !.promise = IF cbRaises THEN "rejected" ELSE "fulfilled"]
       ELSE [c EXCEPT !.pc = "done", !.promise = "fulfilled"]

\* The value handed to an error interceptor: `await interceptor(error)`.
ErrorInterceptorArgument(c) == c.error

\* Variant of NextErrorInterceptor in which the interceptor is invoked without
\* being awaited by the verb: the promise of the call is fulfilled while the
\* interceptor is still running.
NextErrorInterceptor_NotAwaited(c, chain, cbRaises) ==
    IF c.iter < Len(chain)
    THEN LET fn == chain[c.iter + 1]
             arg == ErrorInterceptorArgument(c)
         IN [c EXCEPT
               !.iter = @ + 1,
               !.awaiting = fn,
               !.pending = ErrorInterceptor(fn, arg),
               !.pc = "errorPhase",
               !.promise = "fulfilled",
               !.log = Append(@, [ev |-> "errorInterceptor", fn |-> fn,
                                  arg |-> arg])]
    ELSE Deliver(c, cbRaises)

\* Head of the for..of loop: the next interceptor of the chain is invoked and
\* awaited; when the chain is exhausted the verb resumes and delivers.
NextErrorInterceptor(c, chain, cbRaises) ==
    IF c.iter < Len(chain)
    THEN LET fn == chain[c.iter + 1]
             arg == ErrorInterceptorArgument(c)
         IN [c EXCEPT
               !.iter = @ + 1,
               !.awaiting = fn,
               !.pending = ErrorInterceptor(fn, arg),
               !.pc = "errorPhase",
               !.log = Append(@, [ev |-> "errorInterceptor", fn |-> fn,
                                  arg |-> arg])]
    ELSE Deliver(c, cbRaises)

\* Variant of Resolved that applies the response chain as it was when the
\* verb was called (a copy taken before the await).
Resolved_ChainAtStart(c, response, successRaises, cbRaises) ==
    LET r == applyResponseInterceptors(c.started[2],
                 extractResponseData(response))
        c0 == [c EXCEPT !.log = Append(@, [ev |-> "resolved",
                                           arg |-> response])]
        c1 == [c0 EXCEPT !.log = @ \o r.trace]
    IN IF extractResponseDataRaises(response)
       THEN [c0 EXCEPT !.pc = "done", !.promise = "rejected"]
       ELSE IF "onSuccess" \in c.callbacks /\ ~r.raised
            THEN [c1 EXCEPT !.log = Append(@,
                               [ev |-> "onSuccess", arg |-> r.value,
                                raised |-> FALSE]),
                            !.pc = "done", !.promise = "fulfilled"]
            ELSE [c1 EXCEPT !.pc = "done", !.promise = "fulfilled"]

\* Variant of Catch in which the normalized error carries a `data` field (the
\* failure payload), so that it passes the `'data' in` test by itself.
Catch_ImplicitRecovery(c, thrown, chain, cbRaises) ==
    LET formattedError == extractErrorData(thrown)
    IN NextErrorInterceptor(
          [c EXCEPT !.error = formattedError,
                    !.processedError =
                        ("data" :> formattedError.details) @@ formattedError,
                    !.iter = 0],
          chain, cbRaises)

\* catch (error) { formattedError = extractErrorData(error); ... }
Catch(c, thrown, chain, cbRaises) ==
    LET formattedError == extractErrorData(thrown)
    IN NextErrorInterceptor(
          [c EXCEPT !.error = formattedError,
                    !.processedError = formattedError,
                    !.caught = Some(chain),
                    !.iter = 0],
          chain, cbRaises)

\* The array the for..of iterator of call c walks.
IteratedChain(c) ==
    IF c.detached # None THEN c.detached[1] ELSE errorInterceptors

\* Variant of applyErrorInterceptors without the `break`: the loop goes on
\* after an interceptor has returned a Response.
applyErrorInterceptors_NoBreak(c, chain, cbRaises) ==
    LET r == c.pending
    IN IF r.raised
       THEN NextErrorInterceptor(
               [c EXCEPT !.log = Append(@, [ev |-> "warn", fn |-> c.awaiting])],
               chain, cbRaises)
       ELSE NextErrorInterceptor(
               [c EXCEPT !.processedError = r.value], chain, cbRaises)

\* Body of the for..of loop after `await interceptor(error)` settles:
\* processedError = result, then the test `'data' in result`, which raises a
\* TypeError into the loop's own catch when result is not an object.
applyErrorInterceptors(c, chain, cbRaises) ==
    LET r == c.pending
    IN IF r.raised
       THEN NextErrorInterceptor(
               [c EXCEPT !.log = Append(@, [ev |-> "warn", fn |-> c.awaiting])],
               chain, cbRaises)
       ELSE IF ~IsMap(r.value)
       THEN NextErrorInterceptor(
               [c EXCEPT !.processedError = r.value,
                         !.log = Append(@, [ev |-> "warn", fn |-> c.awaiting])],
               chain, cbRaises)
       ELSE IF "data" \in DOMAIN r.value
            THEN Deliver([c EXCEPT !.processedError = r.value], cbRaises)
            ELSE NextErrorInterceptor(
                    [c EXCEPT !.processedError = r.value], chain, cbRaises)

ErrorInterceptorSettle ==
    /\ call.pc = "errorPhase"
    /\ \E cbRaises \in BOOLEAN :
          call' = applyErrorInterceptors(call, IteratedChain(call), cbRaises)
    /\ UNCHANGED <<requestInterceptors, responseInterceptors,
                   errorInterceptors>>
    /\ Forget
    /\ UNCHANGED <<gql, second, synth, other, storage, now>>

(***************************************************************************)
(* The verbs.                                                              *)
(***************************************************************************)
NewCall(method, url, params, data, callbacks) ==
    [IdleCall EXCEPT !.method = method, !.url = url, !.params = params,
                     !.data = data, !.callbacks = callbacks,
                     !.started = Chains,
                     !.promise = "pending"]

\* Variant of SendWithParams that dispatches through the generic
\* this.api.request(requestConfig): the verb is read from the config.
SendWithParams_ConfigMethod(method, requestConfig, url, params) ==
    [ev |-> "transport",
     method |-> OrElse(Field(requestConfig, "method"), Some(method))[1],
     url |-> OrElse(Field(requestConfig, "url"), Some(url))[1],
     headers |-> Field(requestConfig, "headers"),
     timeout |-> Field(requestConfig, "timeout"),
     params |-> OrElseObj(Field(requestConfig, "params"), params),
     data |-> None]

\* this.api.get / this.api.delete (url, {headers, timeout, params})
SendWithParams(method, requestConfig, url, params) ==
    [ev |-> "transport", method |-> method,
     url |-> OrElse(Field(requestConfig, "url"), Some(url))[1],
     headers |-> Field(requestConfig, "headers"),
     timeout |-> Field(requestConfig, "timeout"),
     params |-> OrElseObj(Field(requestConfig, "params"), params),
     data |-> None]

\* Variant of SendWithData with ?? in place of ||: a value carried by the
\* returned config is dispatched even when it is falsy.
SendWithData_Nullish(method, requestConfig, url, data) ==
    [ev |-> "transport", method |-> method,
     url |-> OrElseObj(Field(requestConfig, "url"), Some(url))[1],
     headers |-> Field(requestConfig, "headers"),
     timeout |-> Field(requestConfig, "timeout"),
     params |-> None,
     data |-> OrElseObj(Field(requestConfig, "data"), data)]

\* this.api.post / this.api.put (url, data, {headers, timeout})
SendWithData(method, requestConfig, url, data) ==
    [ev |-> "transport", method |-> method,
     url |-> OrElse(Field(requestConfig, "url"), Some(url))[1],
     headers |-> Field(requestConfig, "headers"),
     timeout |-> Field(requestConfig, "timeout"),
     params |-> None,
     data |-> OrElse(Field(requestConfig, "data"), data)]

\* The request config a verb builds; a key whose value is undefined is absent.
InitialConfig(method, url, params, data) ==
    [url |-> url, method |-> method, headers |-> <<>>]
        @@ (IF params # None THEN "params" :> params[1] ELSE <<>>)
        @@ (IF data # None THEN "data" :> data[1] ELSE <<>>)

\* Variant of IsCallbacks that tests the `onSuccess` key only.
IsCallbacks_OnSuccessOnly(paramsOrCallbacks) ==
    /\ paramsOrCallbacks # None
    /\ "onSuccess" \in paramsOrCallbacks[1]

\* paramsOrCallbacks && ('onSuccess' in .. || 'onError' in ..)
IsCallbacks(paramsOrCallbacks) ==
    /\ paramsOrCallbacks # None
    /\ paramsOrCallbacks[1] \cap CallbackKeys # {}

FinalParams(paramsOrCallbacks) ==
    IF IsCallbacks(paramsOrCallbacks) THEN None ELSE paramsOrCallbacks

FinalCallbacks(paramsOrCallbacks, callbacks) ==
    IF IsCallbacks(paramsOrCallbacks) THEN paramsOrCallbacks[1]
    ELSE IF callbacks # None THEN callbacks[1] ELSE {}

\* try { requestConfig = applyRequestInterceptors(..); await this.api... }
\* up to the await of the transport, for GET and DELETE.
StartWithParams(method, url, paramsOrCallbacks, thirdArgument, cbRaises) ==
    LET params == FinalParams(paramsOrCallbacks)
        callbacks == FinalCallbacks(paramsOrCallbacks, thirdArgument)
        r == applyRequestInterceptors(requestInterceptors,
                 InitialConfig(method, url, params, None))
        c == [NewCall(method, url, params, None, callbacks)
                EXCEPT !.log = r.trace, !.arg2 = paramsOrCallbacks,
                       !.arg3 = thirdArgument]
    IN IF r.raised
       THEN Catch(c, ThrownError, errorInterceptors, cbRaises)
       ELSE [c EXCEPT
               !.pc = "transport",
               !.log = Append(@, SendWithParams(method, r.value, url, params))]

\* the same for POST and PUT.
StartWithData(method, url, data, callbacks, cbRaises) ==
    LET r == applyRequestInterceptors(requestInterceptors,
                 InitialConfig(method, url, None, data))
        c == [NewCall(method, url, None, data, callbacks)
                EXCEPT !.log = r.trace]
    IN IF r.raised
       THEN Catch(c, ThrownError, errorInterceptors, cbRaises)
       ELSE [c EXCEPT
               !.pc = "transport",
               !.log = Append(@, SendWithData(method, r.value, url, data))]

CanCall == call.pc = "idle"

\* get(url, paramsOrCallbacks, callbacks) with the two optional arguments
\* drawn from `arguments`.
GetWith(arguments) ==
    /\ CanCall
    /\ \E url \in Urls, a \in arguments, cbRaises \in BOOLEAN :
          call' = StartWithParams("GET", url, a[1], a[2], cbRaises)
    /\ UNCHANGED <<requestInterceptors, responseInterceptors,
                   errorInterceptors>>
    /\ Forget
    /\ UNCHANGED <<gql, second, synth, other, storage, now>>

DeleteWith(arguments) ==
    /\ CanCall
    /\ \E url \in Urls, a \in arguments, cbRaises \in BOOLEAN :
          call' = StartWithParams("DELETE", url, a[1], a[2], cbRaises)
    /\ UNCHANGED <<requestInterceptors, responseInterceptors,
                   errorInterceptors>>
    /\ Forget
    /\ UNCHANGED <<gql, second, synth, other, storage, now>>

get == GetWith(VerbArguments)

delete == DeleteWith(VerbArguments)

post ==
    /\ CanCall
    /\ \E url \in Urls, data \in Payloads, callbacks \in CallbackObjects,
          cbRaises \in BOOLEAN :
          call' = StartWithData("POST", url, Some(data), callbacks, cbRaises)
    /\ UNCHANGED <<requestInterceptors, responseInterceptors,
                   errorInterceptors>>
    /\ Forget
    /\ UNCHANGED <<gql, second, synth, other, storage, now>>

put ==
    /\ CanCall
    /\ \E url \in Urls, data \in Payloads, callbacks \in CallbackObjects,
          cbRaises \in BOOLEAN :
          call' = StartWithData("PUT", url, Some(data), callbacks, cbRaises)
    /\ UNCHANGED <<requestInterceptors, responseInterceptors,
                   errorInterceptors>>
    /\ Forget
    /\ UNCHANGED <<gql, second, synth, other, storage, now>>

\* The transport resolves: rest of the try block, and the catch block when
\* a response interceptor or onSuccess raises.
Resolved(c, response, successRaises, cbRaises) ==
    LET r == applyResponseInterceptors(responseInterceptors,
                 extractResponseData(response))
        c0 == [c EXCEPT !.log = Append(@, [ev |-> "resolved",
                                           arg |-> response])]
        c1 == [c0 EXCEPT !.log = @ \o r.trace]
    IN IF extractResponseDataRaises(response)
       THEN Catch(c0, ThrownError, errorInterceptors, cbRaises)
       ELSE IF r.raised
       THEN Catch(c1, ThrownError, errorInterceptors, cbRaises)
       ELSE IF "onSuccess" \in c.callbacks
            THEN LET c2 == [c1 EXCEPT !.log = Append(@,
                               [ev |-> "onSuccess", arg |-> r.value,
                                raised |-> successRaises])]
                 IN IF successRaises
                    THEN Catch(c2, ThrownError, errorInterceptors, cbRaises)
                    ELSE [c2 EXCEPT !.pc = "done", !.promise = "fulfilled"]
            ELSE [c1 EXCEPT !.pc = "done", !.promise = "fulfilled"]

TransportResolveWith(responses) ==
    /\ call.pc = "transport"
    /\ \E response \in responses, successRaises \in BOOLEAN,
          cbRaises \in BOOLEAN :
          call' = Resolved(call, response, successRaises, cbRaises)
    /\ UNCHANGED <<requestInterceptors, responseInterceptors,
                   errorInterceptors>>
    /\ Forget
    /\ UNCHANGED <<gql, second, synth, other, storage, now>>

TransportResolve == TransportResolveWith(TransportResponses)

\* The third argument of the README's upload example: callbacks next to
\* per-call headers.
UploadOptions ==
    {[keys |-> ks, rest |-> [headers |-> <<"Content-Type: multipart/form-data">>]] :
        ks \in CallbackObjects}

\* post(url, data, options): the parameter is destructured as
\* { onSuccess, onError }, every other key of the object is left unread.
PostWithOptions ==
    /\ CanCall
    /\ \E url \in Urls, data \in Payloads, options \in UploadOptions,
          cbRaises \in BOOLEAN :
          call' = [StartWithData("POST", url, Some(data),
                                 options.keys \cap CallbackKeys, cbRaises)
                      EXCEPT !.options = options.rest]
    /\ UNCHANGED <<requestInterceptors, responseInterceptors,
                   errorInterceptors>>
    /\ Forget
    /\ UNCHANGED <<gql, second, synth, other, storage, now>>

\* The transport rejects: the catch block.
TransportRejectWith(errors) ==
    /\ call.pc = "transport"
    /\ \E error \in errors, cbRaises \in BOOLEAN :
          call' = Catch([call EXCEPT !.log = Append(@,
                            [ev |-> "rejected", arg |-> error])],
                        error, errorInterceptors, cbRaises)
    /\ UNCHANGED <<requestInterceptors, responseInterceptors,
                   errorInterceptors>>
    /\ Forget
    /\ UNCHANGED <<gql, second, synth, other, storage, now>>

TransportReject == TransportRejectWith(TransportErrors)

\* The promise of the call has settled and the caller has seen the outcome.
Return ==
    /\ call.pc = "done"
    /\ call' = IdleCall
    /\ UNCHANGED <<requestInterceptors, responseInterceptors,
                   errorInterceptors>>
    /\ Forget
    /\ UNCHANGED <<gql, second, synth, other, storage, now>>

\* Caller discipline: the chains are changed from the single control thread
\* that issues the calls, not while a call is being dispatched.
Quiescent == call.pc = "idle"

Next ==
    \/ Quiescent /\ \E fn \in RequestFns : addRequestInterceptor(fn)
    \/ Quiescent /\ \E fn \in ResponseFns : addResponseInterceptor(fn)
    \/ Quiescent /\ \E fn \in ErrorFns : addErrorInterceptor(fn)
    \/ Quiescent /\ \E fn \in RequestFns : removeRequestInterceptor(fn)
    \/ Quiescent /\ \E fn \in ResponseFns : removeResponseInterceptor(fn)
    \/ Quiescent /\ \E fn \in ErrorFns : removeErrorInterceptor(fn)
    \/ Quiescent /\ clearInterceptors
    \/ Return
    \/ get
    \/ post
    \/ put
    \/ delete
    \/ TransportResolve
    \/ TransportReject
    \/ ErrorInterceptorSettle

Spec == Init /\ [][Next]_vars

\* The interceptors of the README examples, one per chain.
PipelineRequestFns == {"rqOverride"}
PipelineResponseFns == {"rsTagA"}
PipelineErrorFns == {"erPromote"}

\* The client with the README's interceptors, called in every way get and
\* delete can be called and answered with every kind of payload.
NextInputs ==
    \/ Quiescent /\ \E fn \in PipelineRequestFns : addRequestInterceptor(fn)
    \/ Quiescent /\ \E fn \in PipelineResponseFns : addResponseInterceptor(fn)
    \/ Quiescent /\ \E fn \in PipelineErrorFns : addErrorInterceptor(fn)
    \/ Quiescent /\ clearInterceptors
    \/ Return
    \/ GetWith(AnyArguments)
    \/ post
    \/ PostWithOptions
    \/ put
    \/ DeleteWith(AnyArguments)
    \/ TransportResolveWith(AnyPayloadResponses)
    \/ TransportRejectWith(AnyPayloadErrors)
    \/ ErrorInterceptorSettle

SpecInputs == Init /\ [][NextInputs]_vars

(***************************************************************************)
(* A caller that changes the chains while a call awaits the transport (and *)
(* between calls).                                                         *)
(***************************************************************************)
LiveRequestFns == {"rqDelete"}
LiveResponseFns == {"rsTagA"}
LiveErrorFns == {"erTagA"}

\* get(url, {onSuccess, onError}), answered by a payload or by a timeout
LiveArguments == {<<Some(CallbackKeys), None>>}
LiveResponses == {[status |-> 200, data |-> [id |-> "1", message |-> <<"ok">>]]}
LiveErrors == {[code |-> "ECONNABORTED"]}

AwaitingTransport == call.pc \in {"idle", "transport"}

NextLive ==
    \/ AwaitingTransport /\ \E fn \in LiveRequestFns : addRequestInterceptor(fn)
    \/ AwaitingTransport
          /\ \E fn \in LiveResponseFns : addResponseInterceptor(fn)
    \/ AwaitingTransport /\ \E fn \in LiveErrorFns : addErrorInterceptor(fn)
    \/ AwaitingTransport
          /\ \E fn \in LiveRequestFns : removeRequestInterceptor(fn)
    \/ AwaitingTransport
          /\ \E fn \in LiveResponseFns : removeResponseInterceptor(fn)
    \/ AwaitingTransport
          /\ \E fn \in LiveErrorFns : removeErrorInterceptor(fn)
    \/ AwaitingTransport /\ clearInterceptors
    \/ GetWith(LiveArguments)
    \/ TransportResolveWith(LiveResponses)
    \/ TransportRejectWith(LiveErrors)
    \/ ErrorInterceptorSettle
    \/ Return

SpecLive == Init /\ [][NextLive]_vars

(***************************************************************************)
(* A caller that removes error interceptors while a call awaits an error   *)
(* interceptor (and changes the error chain between calls).                *)
(***************************************************************************)
SuspendedErrorFns == {"erTagA", "erTagB", "erPromote"}

AwaitingInterceptor == call.pc \in {"idle", "errorPhase"}

NextSuspended ==
    \/ Quiescent /\ \E fn \in SuspendedErrorFns : addErrorInterceptor(fn)
    \/ AwaitingInterceptor
          /\ \E fn \in SuspendedErrorFns : removeErrorInterceptor(fn)
    \/ Quiescent /\ clearInterceptors
    \/ GetWith(LiveArguments)
    \/ TransportRejectWith(LiveErrors)
    \/ ErrorInterceptorSettle
    \/ Return

SpecSuspended == Init /\ [][NextSuspended]_vars

(***************************************************************************)
(* Error interceptors that return nothing.  The declared type of an error  *)
(* interceptor excludes it, the compiled JavaScript accepts it.            *)
(***************************************************************************)
VoidErrorFns == {"erVoid", "erTagA", "erThrow"}

NextVoid ==
    \/ Quiescent /\ \E fn \in VoidErrorFns : addErrorInterceptor(fn)
    \/ Quiescent /\ \E fn \in VoidErrorFns : removeErrorInterceptor(fn)
    \/ Quiescent /\ clearInterceptors
    \/ get
    \/ TransportResolve
    \/ TransportReject
    \/ ErrorInterceptorSettle
    \/ Return

SpecVoid == Init /\ [][NextVoid]_vars

(***************************************************************************)
(* Two ApiClient instances.  The variables requestInterceptors,            *)
(* responseInterceptors and errorInterceptors are the fields of the        *)
(* instance the calls are made on; `other` holds the same three fields of  *)
(* another instance, on which add*, remove* and clearInterceptors are      *)
(* called at any time, also while a call of the first instance is in       *)
(* flight.  Each instance is given interceptors of its own.                *)
(***************************************************************************)
ChainNames ==
    {"requestInterceptors", "responseInterceptors", "errorInterceptors"}

OtherFns ==
    [requestInterceptors |-> {"rqFalsy"}, responseInterceptors |-> {"rsTagB"},
     errorInterceptors |-> {"erTagB"}]

OtherRegistered ==
    Len(other.requestInterceptors) + Len(other.responseInterceptors)
        + Len(other.errorInterceptors)

\* Variant of otherAddInterceptor for chains held in static fields, shared by
\* every instance: the push is seen by the first instance as well.
otherAddInterceptor_Static(chain, fn) ==
    /\ OtherRegistered < MaxRegistered
    /\ other' = [other EXCEPT ![chain] = Append(@, fn)]
    /\ requestInterceptors' =
          IF chain = "requestInterceptors" THEN Append(requestInterceptors, fn)
          ELSE requestInterceptors
    /\ responseInterceptors' =
          IF chain = "responseInterceptors"
          THEN Append(responseInterceptors, fn) ELSE responseInterceptors
    /\ errorInterceptors' =
          IF chain = "errorInterceptors" THEN Append(errorInterceptors, fn)
          ELSE errorInterceptors
    /\ UNCHANGED <<call, history, gql, second, synth, storage, now>>

\* add*Interceptor on the other instance: this.<chain>.push(interceptor)
otherAddInterceptor(chain, fn) ==
    /\ OtherRegistered < MaxRegistered
    /\ other' = [other EXCEPT ![chain] = Append(@, fn)]
    /\ UNCHANGED <<requestInterceptors, responseInterceptors,
                   errorInterceptors, call, history, gql, second, synth,
                   storage, now>>

\* remove*Interceptor on the other instance
otherRemoveInterceptor(chain, fn) ==
    /\ other' = [other EXCEPT ![chain] = Remove(@, fn)]
    /\ UNCHANGED <<requestInterceptors, responseInterceptors,
                   errorInterceptors, call, history, gql, second, synth,
                   storage, now>>

\* clearInterceptors on the other instance
otherClearInterceptors ==
    /\ other' = NewInstance
    /\ UNCHANGED <<requestInterceptors, responseInterceptors,
                   errorInterceptors, call, history, gql, second, synth,
                   storage, now>>

NextInstances ==
    \/ Quiescent /\ \E fn \in PipelineRequestFns : addRequestInterceptor(fn)
    \/ Quiescent /\ \E fn \in PipelineResponseFns : addResponseInterceptor(fn)
    \/ Quiescent /\ \E fn \in PipelineErrorFns : addErrorInterceptor(fn)
    \/ Quiescent /\ \E fn \in PipelineRequestFns : removeRequestInterceptor(fn)
    \/ Quiescent /\ \E fn \in PipelineResponseFns :
                        removeResponseInterceptor(fn)
    \/ Quiescent /\ \E fn \in PipelineErrorFns : removeErrorInterceptor(fn)
    \/ Quiescent /\ clearInterceptors
    \/ \E chain \in ChainNames : \E fn \in OtherFns[chain] :
          otherAddInterceptor(chain, fn)
    \/ \E chain \in ChainNames : \E fn \in OtherFns[chain] :
          otherRemoveInterceptor(chain, fn)
    \/ otherClearInterceptors
    \/ get
    \/ TransportResolve
    \/ TransportReject
    \/ ErrorInterceptorSettle
    \/ Return

SpecInstances == Init /\ [][NextInstances]_vars

(***************************************************************************)
(* The StorageService singleton and the clock.  Time is counted in hours   *)
(* since the module was loaded.                                            *)
(***************************************************************************)
MaxTime == 26

\* The pairs and the user a caller stores.
TokenPairs ==
    {[accessToken |-> "renewed", expiresAt |-> e] : e \in {12, TokenLifetime + 1}}
Users == {[id |-> "456"]}

Returned(op, value, warned) ==
    [op |-> op, returned |-> value, warned |-> warned]

\* Variant of getTokens without the expiry test.
getTokens_NoExpiry ==
    /\ storage' = [storage EXCEPT
                      !.lastCall = Returned("getTokens", storage.tokens, FALSE)]
    /\ UNCHANGED <<requestInterceptors, responseInterceptors,
                   errorInterceptors, call, history, gql, second, synth, other,
                   now>>

\* if (this.tokens && this.tokens.expiresAt < Date.now()) this.tokens = null
\* return this.tokens
getTokens ==
    LET expired == storage.tokens # None /\ storage.tokens[1].expiresAt < now
        tokens == IF expired THEN None ELSE storage.tokens
    IN /\ storage' = [storage EXCEPT
                         !.tokens = tokens,
                         !.lastCall = Returned("getTokens", tokens, expired)]
       /\ UNCHANGED <<requestInterceptors, responseInterceptors,
                      errorInterceptors, call, history, gql, second, synth,
                      other, now>>

setTokens(tokens) ==
    /\ storage' = [storage EXCEPT
                      !.tokens = Some(tokens),
                      !.lastCall = Returned("setTokens", None, FALSE)]
    /\ UNCHANGED <<requestInterceptors, responseInterceptors,
                   errorInterceptors, call, history, gql, second, synth, other,
                   now>>

clearTokens ==
    /\ storage' = [storage EXCEPT
                      !.tokens = None,
                      !.lastCall = Returned("clearTokens", None, FALSE)]
    /\ UNCHANGED <<requestInterceptors, responseInterceptors,
                   errorInterceptors, call, history, gql, second, synth, other,
                   now>>

getUserData ==
    /\ storage' = [storage EXCEPT
                      !.lastCall = Returned("getUserData", storage.userData,
                                            FALSE)]
    /\ UNCHANGED <<requestInterceptors, responseInterceptors,
                   errorInterceptors, call, history, gql, second, synth, other,
                   now>>

setUserData(userData) ==
    /\ storage' = [storage EXCEPT
                      !.userData = Some(userData),
                      !.lastCall = Returned("setUserData", None, FALSE)]
    /\ UNCHANGED <<requestInterceptors, responseInterceptors,
                   errorInterceptors, call, history, gql, second, synth, other,
                   now>>

clearUserData ==
    /\ storage' = [storage EXCEPT
                      !.userData = None,
                      !.lastCall = Returned("clearUserData", None, FALSE)]
    /\ UNCHANGED <<requestInterceptors, responseInterceptors,
                   errorInterceptors, call, history, gql, second, synth, other,
                   now>>

\* this.clearTokens(); this.clearUserData()
clearAll ==
    /\ storage' = [storage EXCEPT
                      !.tokens = None,
                      !.userData = None,
                      !.lastCall = Returned("clearAll", None, FALSE)]
    /\ UNCHANGED <<requestInterceptors, responseInterceptors,
                   errorInterceptors, call, history, gql, second, synth, other,
                   now>>

\* An hour passes.
Tick ==
    /\ now < MaxTime
    /\ now' = now + 1
    /\ UNCHANGED <<requestInterceptors, responseInterceptors,
                   errorInterceptors, call, history, gql, second, synth, other,
                   storage>>

NextStorage ==
    \/ getTokens
    \/ \E tokens \in TokenPairs : setTokens(tokens)
    \/ clearTokens
    \/ getUserData
    \/ \E userData \in Users : setUserData(userData)
    \/ clearUserData
    \/ clearAll
    \/ Tick

SpecStorage == Init /\ [][NextStorage]_vars

(***************************************************************************)
(* Calls of the query synthesizer: buildFields, buildWhereClause and       *)
(* buildCubeQuery applied to caller-supplied mappings, in any order and    *)
(* any number of times.                                                    *)
(***************************************************************************)
Selections == {BooleanValue(TRUE), BooleanValue(FALSE), Undefined}

\* The field mappings of one entity: no field, or `total` and `status` in
\* either order with every selection.
EntityFields ==
    {<<>>}
        \cup {<<<<"total", a>>, <<"status", b>>>> : a, b \in Selections}
        \cup {<<<<"status", a>>, <<"total", b>>>> : a, b \in Selections}

DocFields ==
    <<<<"vendas", <<<<"total", BooleanValue(TRUE)>>,
                    <<"data", BooleanValue(TRUE)>>,
                    <<"status", BooleanValue(TRUE)>>>>>>,
      <<"cliente", <<<<"nome", BooleanValue(TRUE)>>,
                     <<"email", BooleanValue(TRUE)>>>>>>>>

FieldsInputs ==
    {<<>>, DocFields}
        \cup {<<<<"sales", f>>>> : f \in EntityFields}
        \cup {<<<<"sales", f>>, <<"cliente", g>>>> :
                 f \in EntityFields,
                 g \in {<<>>, <<<<"nome", BooleanValue(TRUE)>>>>,
                        <<<<"nome", BooleanValue(FALSE)>>>>}}

FilterValues ==
    {NumberValue(1000), StringValue("PJ"), BooleanValue(TRUE),
     BooleanValue(FALSE),
     ArrayValue(<<StringValue("APROVADA"), StringValue("CONCLUIDA")>>),
     ArrayValue(<<NumberValue(1), NumberValue(2)>>),
     ArrayValue(<<>>)}

Conditions ==
    {<<>>,
     <<<<"greaterThan", NumberValue(1000)>>,
       <<"lessThan", NumberValue(5000)>>>>}
        \cup {<<<<"equals", v>>>> : v \in FilterValues}

EntityFilters ==
    {<<>>}
        \cup {<<<<"total", c>>>> : c \in Conditions}
        \cup {<<<<"total", c>>,
                <<"status", <<<<"in", ArrayValue(<<StringValue("APROVADA"),
                                                   StringValue("CONCLUIDA")>>)>>>>>>>> :
                 c \in Conditions}

DocWhere ==
    <<<<"vendas",
        <<<<"total", <<<<"greaterThan", NumberValue(1000)>>,
                       <<"lessThan", NumberValue(5000)>>>>>>,
          <<"status", <<<<"in", ArrayValue(<<StringValue("APROVADA"),
                                             StringValue("CONCLUIDA")>>)>>>>>>>>>>,
      <<"cliente", <<<<"tipo", <<<<"equals", StringValue("PJ")>>>>>>>>>>>>

SalesWhere ==
    <<<<"sales", <<<<"total", <<<<"greaterThan", NumberValue(1000)>>>>>>>>>>>>

WhereInputs ==
    {<<>>, DocWhere, SalesWhere}
        \cup {<<<<"sales", f>>>> : f \in EntityFilters}
        \cup {<<<<"cliente", <<>>>>, <<"sales", f>>>> : f \in EntityFilters}

\* An options object: each key is present or absent.
Option(key, value) == IF value = None THEN <<>> ELSE key :> value[1]

Limits == {None, Some(0), Some(20)}
Offsets == {None, Some(0), Some(5)}
OptionWheres == {None, Some(<<>>), Some(SalesWhere), Some(DocWhere)}
OptionFields ==
    {None, Some(<<>>),
     Some(<<<<"sales", <<<<"total", BooleanValue(TRUE)>>,
                         <<"status", BooleanValue(FALSE)>>>>>>>>),
     Some(<<<<"cliente", <<<<"nome", BooleanValue(FALSE)>>>>>>>>)}
DefaultEntities == {None, Some("vendas")}
DefaultFields == {None, Some(<<>>), Some(<<"id", "total">>)}

OptionsInputs ==
    {Option("limit", l) @@ Option("offset", o) @@ Option("where", w)
        @@ Option("fields", f) @@ Option("defaultEntity", e)
        @@ Option("defaultFields", d) :
        l \in Limits, o \in Offsets, w \in OptionWheres, f \in OptionFields,
        e \in DefaultEntities, d \in DefaultFields}

\* A call of a synthesizer function: the function reads its argument and
\* returns a new string.
Called(fn, input, output) ==
    [fn |-> fn, input |-> input, argument |-> input, output |-> output,
     repeat |-> IF synth.fn = fn /\ synth.input = input
                THEN Some(synth.output) ELSE None]

CallBuildFields ==
    /\ \E fields \in FieldsInputs :
          synth' = Called("buildFields", fields, buildFields(fields))
    /\ UNCHANGED <<requestInterceptors, responseInterceptors,
                   errorInterceptors, call, history, gql, second, other,
                   storage, now>>

CallBuildWhereClause ==
    /\ \E where \in WhereInputs :
          synth' = Called("buildWhereClause", where, buildWhereClause(where))
    /\ UNCHANGED <<requestInterceptors, responseInterceptors,
                   errorInterceptors, call, history, gql, second, other,
                   storage, now>>

CallBuildCubeQuery ==
    /\ \E options \in OptionsInputs :
          synth' = Called("buildCubeQuery", options, buildCubeQuery(options))
    /\ UNCHANGED <<requestInterceptors, responseInterceptors,
                   errorInterceptors, call, history, gql, second, other,
                   storage, now>>

NextSynth ==
    \/ CallBuildFields
    \/ CallBuildWhereClause
    \/ CallBuildCubeQuery

SpecSynth == Init /\ [][NextSynth]_vars

(***************************************************************************)
(* Two verb calls in flight on one client.  `call` is a post, `second` a   *)
(* get issued on the same instance; each is suspended at its awaits (the   *)
(* transport, an error interceptor) and the two resume in any order.  The  *)
(* chains are set up before the calls and not touched while one is in      *)
(* flight.                                                                 *)
(***************************************************************************)
ConcurrentRequestFns == {"rqDelete"}
ConcurrentResponseFns == {"rsTagA"}
ConcurrentErrorFns == {"erTagA", "erPromote"}
SecondUrls == {"/v"}

\* get(url, params, callbacks) and get(url, params).
ConcurrentArguments == {a \in VerbArguments : a[1] = Some({"userId"})}

BothIdle == call.pc = "idle" /\ second.pc = "idle"

\* Variant of SecondGet whose request phase walks the shared chain with
\* shift(), removing the interceptor it has just run.
SecondGet_ShiftsChain ==
    /\ second.pc = "idle"
    /\ \E url \in SecondUrls, a \in ConcurrentArguments, cbRaises \in BOOLEAN :
          second' = StartWithParams("GET", url, a[1], a[2], cbRaises)
    /\ requestInterceptors' = IF requestInterceptors = <<>> THEN <<>>
                              ELSE Tail(requestInterceptors)
    /\ UNCHANGED <<responseInterceptors, errorInterceptors>>
    /\ Forget
    /\ UNCHANGED <<call, gql, synth, other, storage, now>>

\* get(url, paramsOrCallbacks, callbacks) issued while `call` may be in
\* flight.
SecondGet ==
    /\ second.pc = "idle"
    /\ \E url \in SecondUrls, a \in ConcurrentArguments, cbRaises \in BOOLEAN :
          second' = StartWithParams("GET", url, a[1], a[2], cbRaises)
    /\ UNCHANGED <<requestInterceptors, responseInterceptors,
                   errorInterceptors>>
    /\ Forget
    /\ UNCHANGED <<call, gql, synth, other, storage, now>>

SecondTransportResolve ==
    /\ second.pc = "transport"
    /\ \E response \in TransportResponses, successRaises \in BOOLEAN,
          cbRaises \in BOOLEAN :
          second' = Resolved(second, response, successRaises, cbRaises)
    /\ UNCHANGED <<requestInterceptors, responseInterceptors,
                   errorInterceptors>>
    /\ Forget
    /\ UNCHANGED <<call, gql, synth, other, storage, now>>

SecondTransportReject ==
    /\ second.pc = "transport"
    /\ \E error \in TransportErrors, cbRaises \in BOOLEAN :
          second' = Catch([second EXCEPT !.log = Append(@,
                              [ev |-> "rejected", arg |-> error])],
                          error, errorInterceptors, cbRaises)
    /\ UNCHANGED <<requestInterceptors, responseInterceptors,
                   errorInterceptors>>
    /\ Forget
    /\ UNCHANGED <<call, gql, synth, other, storage, now>>

SecondErrorInterceptorSettle ==
    /\ second.pc = "errorPhase"
    /\ \E cbRaises \in BOOLEAN :
          second' = applyErrorInterceptors(second, errorInterceptors, cbRaises)
    /\ UNCHANGED <<requestInterceptors, responseInterceptors,
                   errorInterceptors>>
    /\ Forget
    /\ UNCHANGED <<call, gql, synth, other, storage, now>>

SecondReturn ==
    /\ second.pc = "done"
    /\ second' = IdleCall
    /\ UNCHANGED <<requestInterceptors, responseInterceptors,
                   errorInterceptors>>
    /\ Forget
    /\ UNCHANGED <<call, gql, synth, other, storage, now>>

NextConcurrent ==
    \/ BothIdle /\ \E fn \in ConcurrentRequestFns : addRequestInterceptor(fn)
    \/ BothIdle /\ \E fn \in ConcurrentResponseFns : addResponseInterceptor(fn)
    \/ BothIdle /\ \E fn \in ConcurrentErrorFns : addErrorInterceptor(fn)
    \/ post
    \/ TransportResolve
    \/ TransportReject
    \/ ErrorInterceptorSettle
    \/ Return
    \/ SecondGet
    \/ SecondTransportResolve
    \/ SecondTransportReject
    \/ SecondErrorInterceptorSettle
    \/ SecondReturn

SpecConcurrent == Init /\ [][NextConcurrent]_vars

(***************************************************************************)
(* GraphQLClient and CubeGraphQLClient.  Neither has interceptor chains:   *)
(* both post through their own transport (this.api).                       *)
(***************************************************************************)
QueryTexts == {<<"query { me { id } }">>}
VariableObjects == {None, Some([id |-> "1"])}
CubeUrls == {"/cubejs-api/graphql"}

CubeOptions ==
    {[limit |-> 0],
     [limit |-> 20, offset |-> 0,
      where |-> <<<<"vendas",
                    <<<<"status",
                        <<<<"in", ArrayValue(<<StringValue("APROVADA"),
                                               StringValue("CONCLUIDA")>>)>>,
                          <<"equals", StringValue("ATIVA")>>>>>>,
                      <<"total", <<<<"greaterThan", NumberValue(1000)>>>>>>>>>>>>,
      fields |-> <<<<"vendas", <<<<"id", BooleanValue(TRUE)>>,
                                 <<"total", BooleanValue(FALSE)>>,
                                 <<"status", BooleanValue(TRUE)>>>>>>,
                   <<"cliente", <<<<"nome", BooleanValue(FALSE)>>>>>>>>],
     [defaultEntity |-> "vendas", defaultFields |-> <<"id", "total">>]}

GraphQLResponses ==
    {[status |-> 200, data |-> [data |-> [cube |-> [rows |-> <<"r1", "r2">>]]]],
     [status |-> 200, data |-> [data |-> [products |-> [rows |-> <<"p1">>]]]],
     [status |-> 200, data |-> [data |-> JsNull, errors |-> <<"bad field">>]]}

\* this.extractResponseData: the method of the instance's class.
Dispatch_extractResponseData(client, response) ==
    IF client = "CubeGraphQLClient"
    THEN CubeGraphQLClient_extractResponseData(response)
    ELSE GraphQLClient_extractResponseData(response)

\* this.api.post(url, body)
Post(g, url, body) ==
    [g EXCEPT !.requests = @ + 1,
              !.log = Append(@, [ev |-> "transport", method |-> "POST",
                                 url |-> url, body |-> body])]

\* catch (error) { onError?.(this.extractErrorData(error)) }
GraphQLCatch(g, thrown, cbRaises) ==
    IF "onError" \in g.callbacks
    THEN [g EXCEPT
            !.log = Append(@, [ev |-> "onError",
                               arg |-> GraphQLClient_extractErrorData(thrown),
                               raised |-> cbRaises]),
            !.pc = "done",
            !.promise = IF cbRaises THEN "rejected" ELSE "fulfilled"]
    ELSE [g EXCEPT !.pc = "done", !.promise = "fulfilled"]

\* Variant of GraphQLClient_query that posts the query text alone.
GraphQLClient_query_NoVariables(g, query, variables) ==
    [Post(g, "", [query |-> query]) EXCEPT !.pc = "transport"]

\* GraphQLClient.query up to the await of the transport; `variables = {}` by
\* default.
GraphQLClient_query(g, query, variables) ==
    [Post(g, "", [query |-> query,
                  variables |-> IF variables = None THEN <<>>
                                ELSE variables[1]])
        EXCEPT !.pc = "transport"]

\* Variant of GraphQLClient_mutate that posts the text under a `mutation` key.
GraphQLClient_mutate_RenamedKey(g, mutation, variables) ==
    [Post(g, "", [mutation |-> mutation,
                  variables |-> IF variables = None THEN <<>>
                                ELSE variables[1]])
        EXCEPT !.pc = "transport"]

\* GraphQLClient.mutate: return this.query(mutation, variables,
\* { onSuccess, onError }); on a GraphQLClient instance this.query is
\* GraphQLClient.query.
GraphQLClient_mutate(g, mutation, variables) ==
    GraphQLClient_query(g, mutation, variables)

NewGql(client, op, url, text, variables, callbacks) ==
    [IdleGql EXCEPT !.client = client, !.op = op, !.url = url, !.text = text,
                    !.variables = variables, !.callbacks = callbacks,
                    !.promise = "pending"]

GIdle == gql.pc = "idle" /\ call.pc = "idle"

GraphQLQuery ==
    /\ GIdle
    /\ \E query \in QueryTexts, variables \in VariableObjects,
          callbacks \in CallbackObjects :
          gql' = GraphQLClient_query(
                    NewGql("GraphQLClient", "query", None, query, variables,
                           callbacks),
                    query, variables)
    /\ Forget
    /\ UNCHANGED <<requestInterceptors, responseInterceptors,
                   errorInterceptors, call, second, synth, other,
                   storage, now>>

GraphQLMutate ==
    /\ GIdle
    /\ \E mutation \in QueryTexts, variables \in VariableObjects,
          callbacks \in CallbackObjects :
          gql' = GraphQLClient_mutate(
                    NewGql("GraphQLClient", "mutate", None, mutation,
                           variables, callbacks),
                    mutation, variables)
    /\ Forget
    /\ UNCHANGED <<requestInterceptors, responseInterceptors,
                   errorInterceptors, call, second, synth, other,
                   storage, now>>

\* CubeGraphQLClient.query up to `await this.api.post(url, { query })`.
CubeQuery ==
    /\ GIdle
    /\ \E url \in CubeUrls, options \in CubeOptions,
          callbacks \in CallbackObjects :
          LET query == buildCubeQuery(options)
          IN gql' = [Post(NewGql("CubeGraphQLClient", "query", Some(url),
                                 query, None, callbacks),
                          url, [query |-> query])
                        EXCEPT !.pc = "firstPost"]
    /\ Forget
    /\ UNCHANGED <<requestInterceptors, responseInterceptors,
                   errorInterceptors, call, second, synth, other,
                   storage, now>>

\* The post of CubeGraphQLClient.query resolves: its response is dropped and
\* super.query(query, {}, callbacks) runs.
CubeFirstResolve ==
    /\ gql.pc = "firstPost"
    /\ \E response \in GraphQLResponses :
          gql' = GraphQLClient_query(
                    [gql EXCEPT !.log = Append(@, [ev |-> "resolved",
                                                   request |-> 1,
                                                   arg |-> response])],
                    gql.text, Some(<<>>))
    /\ Forget
    /\ UNCHANGED <<requestInterceptors, responseInterceptors,
                   errorInterceptors, call, second, synth, other,
                   storage, now>>

\* The post of CubeGraphQLClient.query rejects outside any try block: the
\* promise of the call rejects with the transport error.
CubeFirstReject ==
    /\ gql.pc = "firstPost"
    /\ \E error \in TransportErrors :
          gql' = [gql EXCEPT !.log = Append(@, [ev |-> "rejected",
                                                request |-> 1,
                                                arg |-> error]),
                             !.pc = "done", !.promise = "rejected"]
    /\ Forget
    /\ UNCHANGED <<requestInterceptors, responseInterceptors,
                   errorInterceptors, call, second, synth, other,
                   storage, now>>

\* The post of GraphQLClient.query resolves: rest of the try block, and the
\* catch block when the normalizer or onSuccess raises.
GraphQLResolved(g, response, successRaises, cbRaises) ==
    LET r == Dispatch_extractResponseData(g.client, response)
        g1 == [g EXCEPT !.log = Append(@, [ev |-> "resolved",
                                           request |-> g.requests,
                                           arg |-> response])]
    IN IF r.raised THEN GraphQLCatch(g1, ThrownError, cbRaises)
       ELSE IF "onSuccess" \in g.callbacks
            THEN LET g2 == [g1 EXCEPT !.log = Append(@,
                               [ev |-> "onSuccess", arg |-> r.value,
                                raised |-> successRaises])]
                 IN IF successRaises
                    THEN GraphQLCatch(g2, ThrownError, cbRaises)
                    ELSE [g2 EXCEPT !.pc = "done", !.promise = "fulfilled"]
            ELSE [g1 EXCEPT !.pc = "done", !.promise = "fulfilled"]

GraphQLResolve ==
    /\ gql.pc = "transport"
    /\ \E response \in GraphQLResponses, successRaises \in BOOLEAN,
          cbRaises \in BOOLEAN :
          gql' = GraphQLResolved(gql, response, successRaises, cbRaises)
    /\ Forget
    /\ UNCHANGED <<requestInterceptors, responseInterceptors,
                   errorInterceptors, call, second, synth, other,
                   storage, now>>

GraphQLReject ==
    /\ gql.pc = "transport"
    /\ \E error \in TransportErrors, cbRaises \in BOOLEAN :
          gql' = GraphQLCatch(
                    [gql EXCEPT !.log = Append(@, [ev |-> "rejected",
                                                   request |-> gql.requests,
                                                   arg |-> error])],
                    error, cbRaises)
    /\ Forget
    /\ UNCHANGED <<requestInterceptors, responseInterceptors,
                   errorInterceptors, call, second, synth, other,
                   storage, now>>

GraphQLReturn ==
    /\ gql.pc = "done"
    /\ gql' = IdleGql
    /\ Forget
    /\ UNCHANGED <<requestInterceptors, responseInterceptors,
                   errorInterceptors, call, second, synth, other,
                   storage, now>>

\* The application's ApiClient has the README's interceptors registered
\* while a GraphQL client is used next to it.
NextGraphQL ==
    \/ GIdle /\ \E fn \in PipelineRequestFns : addRequestInterceptor(fn)
    \/ GIdle /\ \E fn \in PipelineResponseFns : addResponseInterceptor(fn)
    \/ GIdle /\ \E fn \in PipelineErrorFns : addErrorInterceptor(fn)
    \/ GIdle /\ clearInterceptors
    \/ GraphQLQuery
    \/ GraphQLMutate
    \/ CubeQuery
    \/ CubeFirstResolve
    \/ CubeFirstReject
    \/ GraphQLResolve
    \/ GraphQLReject
    \/ GraphQLReturn

SpecGraphQL == Init /\ [][NextGraphQL]_vars


(***************************************************************************)
(* Reading the log of the call.                                            *)
(***************************************************************************)
Log == call.log
Events(kind) == SelectSeq(Log, LAMBDA e : e.ev = kind)
Happened(kind) == \E i \in DOMAIN Log : Log[i].ev = kind
IsEvent(i, kind) == i \in DOMAIN Log /\ Log[i].ev = kind
BothCallbacks == call.callbacks = CallbackKeys

\* What the error interceptor of event e did with the argument it received.
ErrorOutcome(e) == ErrorInterceptor(e.fn, e.arg)
Recovers(e) == ~ErrorOutcome(e).raised /\ "data" \in DOMAIN ErrorOutcome(e).value
RequestOutcome(e) == RequestInterceptor(e.fn, e.arg)
ResponseOutcome(e) == ResponseInterceptor(e.fn, e.arg)

Fns(events) == [i \in DOMAIN events |-> events[i].fn]

\* The config the verb built before the request phase.
BuiltConfig == InitialConfig(call.method, call.url, call.params, call.data)

\* The config returned by the request phase, read off the log.
ReturnedConfig ==
    LET rq == Events("requestInterceptor")
    IN IF rq = <<>> THEN BuiltConfig ELSE RequestOutcome(rq[Len(rq)]).value

Sent == Events("transport")[1]

(***************************************************************************)
(* C1.  With both callbacks supplied, a finished call has invoked exactly  *)
(* one of onSuccess/onError, exactly once, whatever the transport, the     *)
(* interceptors and the callbacks did.                                     *)
(***************************************************************************)
C1_ExactlyOneCallback ==
    (call.pc = "done" /\ BothCallbacks)
        => Len(Events("onSuccess")) + Len(Events("onError")) = 1

(***************************************************************************)
(* C2.  Promotion: when the transport failed and an error interceptor      *)
(* returned a value with a `data` field, the supplied onSuccess is invoked *)
(* once, with exactly that value, and onError is not invoked.              *)
(***************************************************************************)
C2_PromotionDeliversToOnSuccess ==
    \A i \in DOMAIN Log :
        (Happened("rejected") /\ IsEvent(i, "errorInterceptor")
            /\ Recovers(Log[i]))
        => /\ ~Happened("onError")
           /\ (call.pc = "done" /\ "onSuccess" \in call.callbacks)
                => /\ Len(Events("onSuccess")) = 1
                   /\ Events("onSuccess")[1].arg = ErrorOutcome(Log[i]).value

C2_Witness ==
    /\ call.pc = "done"
    /\ BothCallbacks
    /\ Happened("rejected")
    /\ \E i \in DOMAIN Log : IsEvent(i, "errorInterceptor") /\ Recovers(Log[i])
    /\ Happened("onSuccess")

(***************************************************************************)
(* C3.  Each error interceptor after the first is called with the value    *)
(* the previous one returned, so that onError gets the composition of the  *)
(* chain.                                                                  *)
(***************************************************************************)
C3_ErrorInterceptorsCompose ==
    LET er == Events("errorInterceptor")
    IN Happened("rejected")
       => \A k \in 2..Len(er) :
             ~ErrorOutcome(er[k - 1]).raised
                 => er[k].arg = ErrorOutcome(er[k - 1]).value

(***************************************************************************)
(* C4.  A raising request or response interceptor is not caught: the       *)
(* promise rejects, no error interceptor runs and onError is not invoked.  *)
(***************************************************************************)
RequestOrResponseInterceptorRaised ==
    \/ \E i \in DOMAIN Log :
          IsEvent(i, "requestInterceptor") /\ RequestOutcome(Log[i]).raised
    \/ \E i \in DOMAIN Log :
          IsEvent(i, "responseInterceptor") /\ ResponseOutcome(Log[i]).raised

C4_InterceptorFailurePropagates ==
    RequestOrResponseInterceptorRaised
        => /\ ~Happened("errorInterceptor")
           /\ ~Happened("onError")
           /\ call.pc = "done" => call.promise = "rejected"

(***************************************************************************)
(* C5.  After an error interceptor raises, the later interceptors (up to a *)
(* recovery) still run, each receives the last value an earlier            *)
(* interceptor returned (the normalized error if none), and the call ends  *)
(* by invoking the supplied callback.                                      *)
(***************************************************************************)
\* The last value returned by the error interceptors er[1..k], the
\* normalized error when none of them returned.
RECURSIVE LastReturned(_, _)
LastReturned(er, k) ==
    IF k = 0 THEN call.error
    ELSE IF ErrorOutcome(er[k]).raised THEN LastReturned(er, k - 1)
    ELSE ErrorOutcome(er[k]).value

C5_RaisingErrorInterceptorSkipped ==
    LET er == Events("errorInterceptor")
        recovered == \E k \in DOMAIN er : Recovers(er[k])
        raisedBefore(k) == \E j \in 1..(k - 1) : ErrorOutcome(er[j]).raised
    IN (Happened("rejected") /\ \E k \in DOMAIN er : ErrorOutcome(er[k]).raised)
       => /\ \A k \in 2..Len(er) :
                raisedBefore(k) => er[k].arg = LastReturned(er, k - 1)
          /\ call.pc = "done"
                => /\ recovered \/ Fns(er) = errorInterceptors
                   /\ call.processedError = LastReturned(er, Len(er))
                   /\ BothCallbacks
                        => Happened("onSuccess") \/ Happened("onError")

(***************************************************************************)
(* C6.  Promotion short-circuits: once an error interceptor has returned a *)
(* value with a `data` field, no further error interceptor is invoked for  *)
(* the call and applyErrorInterceptors returns that value.                 *)
(***************************************************************************)
C6_PromotionStopsChain ==
    \A i \in DOMAIN Log :
        (IsEvent(i, "errorInterceptor") /\ Recovers(Log[i]))
        => /\ \A j \in DOMAIN Log : j > i => Log[j].ev # "errorInterceptor"
           /\ call.pc = "done"
                => call.processedError = ErrorOutcome(Log[i]).value

C6_Witness ==
    LET er == Events("errorInterceptor")
    IN /\ call.pc = "done"
       /\ er # <<>>
       /\ Recovers(er[Len(er)])
       /\ Len(er) < Len(errorInterceptors)


(***************************************************************************)
(* C7.  Request interceptors are a left fold in registration order: each   *)
(* runs once, the first on the config the verb built, each later one on    *)
(* the config the previous one returned, and the transport gets the        *)
(* headers of the last returned config.                                    *)
(***************************************************************************)
C7_RequestFold ==
    LET rq == Events("requestInterceptor")
    IN Happened("transport")
       => /\ Fns(rq) = requestInterceptors
          /\ rq # <<>> => rq[1].arg = BuiltConfig
          /\ \A k \in 2..Len(rq) : rq[k].arg = RequestOutcome(rq[k - 1]).value
          /\ Sent.headers = Field(ReturnedConfig, "headers")

C7_Witness ==
    /\ Happened("transport")
    /\ Len(requestInterceptors) >= 2
    /\ requestInterceptors[1] # requestInterceptors[2]
    /\ Len(Sent.headers[1]) >= 2

(***************************************************************************)
(* C8.  On every verb a (truthy) url, headers, timeout, params or data     *)
(* value that the request chain put on the config is the value the         *)
(* transport receives, params on POST/PUT and data on GET/DELETE included. *)
(***************************************************************************)
C8_InterceptorValuesReachTransport ==
    LET cfg == ReturnedConfig
    IN Happened("transport")
       => /\ ("url" \in DOMAIN cfg /\ Truthy(cfg.url)) => Sent.url = cfg.url
          /\ Sent.headers = Field(cfg, "headers")
          /\ Sent.timeout = Field(cfg, "timeout")
          /\ "params" \in DOMAIN cfg => Sent.params = Some(cfg.params)
          /\ ("data" \in DOMAIN cfg /\ Truthy(cfg.data))
                => Sent.data = Some(cfg.data)

(***************************************************************************)
(* C9 as claimed.  A url, params or data value carried by the returned     *)
(* config is dispatched even when it is empty or falsy; the caller's value *)
(* is used only when the field is absent.                                  *)
(***************************************************************************)
C9_CarriedValueAlwaysDispatched ==
    LET cfg == ReturnedConfig
    IN Happened("transport")
       => /\ Sent.url = IF "url" \in DOMAIN cfg THEN cfg.url ELSE call.url
          /\ call.method \in {"GET", "DELETE"}
                => Sent.params = IF "params" \in DOMAIN cfg
                                 THEN Some(cfg.params) ELSE call.params
          /\ call.method \in {"POST", "PUT"}
                => Sent.data = IF "data" \in DOMAIN cfg
                               THEN Some(cfg.data) ELSE call.data

(***************************************************************************)
(* C9 as amended.  A url (every verb), params (GET/DELETE) or data         *)
(* (POST/PUT) value carried by the returned config is dispatched when it   *)
(* is truthy; when the field is absent or its value is falsy, the caller's *)
(* original value is dispatched.                                           *)
(***************************************************************************)
C9_TruthyValueElseOriginal ==
    LET cfg == ReturnedConfig
    IN Happened("transport")
       => /\ Sent.url = IF "url" \in DOMAIN cfg /\ Truthy(cfg.url)
                        THEN cfg.url ELSE call.url
          /\ call.method \in {"GET", "DELETE"}
                => Sent.params = IF "params" \in DOMAIN cfg
                                 THEN Some(cfg.params) ELSE call.params
          /\ call.method \in {"POST", "PUT"}
                => Sent.data = IF "data" \in DOMAIN cfg /\ Truthy(cfg.data)
                               THEN Some(cfg.data) ELSE call.data

C9_Witness ==
    /\ Happened("transport")
    /\ call.method = "POST"
    /\ "url" \in DOMAIN ReturnedConfig /\ ~Truthy(ReturnedConfig.url)
    /\ "data" \in DOMAIN ReturnedConfig /\ ~Truthy(ReturnedConfig.data)
    /\ Sent.url = call.url
    /\ Sent.data = call.data

(***************************************************************************)
(* C10.  Response interceptors are a left fold in registration order over  *)
(* the normalized response: each runs once per successful call, each gets  *)
(* the value the previous one returned, and onSuccess gets the value the   *)
(* last one returned (the normalized response when the chain is empty).    *)
(***************************************************************************)
ResponseInterceptorRaised ==
    \E i \in DOMAIN Log :
        IsEvent(i, "responseInterceptor") /\ ResponseOutcome(Log[i]).raised

\* onSuccess invoked on the success path (not for a recovery).
SuccessPathCallback(j) ==
    /\ IsEvent(j, "onSuccess")
    /\ \A i \in 1..(j - 1) : Log[i].ev # "errorInterceptor"

\* The transport resolved and the normalizer produced a success value.
Normalized ==
    /\ Happened("resolved")
    /\ ~extractResponseDataRaises(Events("resolved")[1].arg)

C10_ResponseFold ==
    LET rs == Events("responseInterceptor")
        normalized == extractResponseData(Events("resolved")[1].arg)
    IN (Normalized /\ ~ResponseInterceptorRaised)
       => /\ Fns(rs) = responseInterceptors
          /\ rs # <<>> => rs[1].arg = normalized
          /\ \A k \in 2..Len(rs) :
                rs[k].arg = ResponseOutcome(rs[k - 1]).value
          /\ \A j \in DOMAIN Log :
                SuccessPathCallback(j)
                    => Log[j].arg = IF rs = <<>> THEN normalized
                                    ELSE ResponseOutcome(rs[Len(rs)]).value
          /\ "onSuccess" \in call.callbacks
                => \E j \in DOMAIN Log : SuccessPathCallback(j)

C10_Witness ==
    /\ Normalized
    /\ Len(responseInterceptors) >= 2
    /\ responseInterceptors[1] # responseInterceptors[2]
    /\ \E j \in DOMAIN Log : SuccessPathCallback(j)

(***************************************************************************)
(* C11.  Whatever payload a succeeding transport response carries (map     *)
(* with or without message, array, string, number, null), onSuccess is     *)
(* invoked with status = transport status, data = the payload, message =   *)
(* the payload's own message when it is a map holding one and the fixed    *)
(* default otherwise.                                                      *)
(***************************************************************************)
\* The normalized value the claim describes, written from the claim.
ClaimedSuccessValue(response) ==
    [status |-> response.status,
     data |-> response.data,
     message |-> IF IsMap(response.data) /\ "message" \in DOMAIN response.data
                 THEN response.data.message ELSE DefaultSuccessMessage]

C11_EveryPayloadNormalized ==
    (/\ call.pc = "done"
     /\ Happened("resolved")
     /\ "onSuccess" \in call.callbacks
     /\ responseInterceptors = <<>>)
    => /\ Happened("onSuccess")
       /\ Events("onSuccess")[1].arg
             = ClaimedSuccessValue(Events("resolved")[1].arg)

(***************************************************************************)
(* C12.  A transport failure (no response, timeout, non-2xx status) is     *)
(* normalized before any error interceptor runs: status is the response    *)
(* status, 500 without a response; message is the failure payload's own    *)
(* message, the fixed default without one; code is the transport error     *)
(* code; details is the raw failure payload.  The first error interceptor  *)
(* (onError with an empty chain) receives exactly that value.              *)
(***************************************************************************)
ClaimedErrorValue(failure) ==
    LET received == "response" \in DOMAIN failure
    IN [status |-> IF received THEN failure.response.status ELSE 500,
        message |-> IF received /\ "message" \in DOMAIN failure.response.data
                    THEN failure.response.data.message
                    ELSE DefaultErrorMessage,
        code |-> IF "code" \in DOMAIN failure THEN Some(failure.code) ELSE None,
        details |-> IF received THEN Some(failure.response.data) ELSE None]

C12_FailureNormalizedFirst ==
    LET er == Events("errorInterceptor")
        expected == ClaimedErrorValue(Events("rejected")[1].arg)
    IN Happened("rejected")
       => /\ call.error = expected
          /\ er # <<>> => er[1].arg = expected
          /\ errorInterceptors # <<>> => er # <<>>
          /\ (call.pc = "done" /\ er = <<>> /\ "onError" \in call.callbacks)
                => /\ Len(Events("onError")) = 1
                   /\ Events("onError")[1].arg = expected

C12_Witness ==
    /\ call.pc = "done"
    /\ Happened("rejected")
    /\ "response" \notin DOMAIN Events("rejected")[1].arg
    /\ Events("errorInterceptor") # <<>>
    /\ Events("errorInterceptor")[1].arg.status = 500

(***************************************************************************)
(* C13.  Recovery only through promotion: after a transport failure,       *)
(* onSuccess is invoked only if some error interceptor returned a value    *)
(* with a `data` field; with no error interceptor, or when none of them    *)
(* returns such a value, the supplied onError is invoked and onSuccess is  *)
(* not.                                                                    *)
(***************************************************************************)
Promoted ==
    \E i \in DOMAIN Log : IsEvent(i, "errorInterceptor") /\ Recovers(Log[i])

C13_RecoveryOnlyByPromotion ==
    Happened("rejected")
    => /\ Happened("onSuccess") => Promoted
       /\ (call.pc = "done" /\ ~Promoted)
             => /\ ~Happened("onSuccess")
                /\ "onError" \in call.callbacks
                      => Len(Events("onError")) = 1

C13_Witness ==
    /\ call.pc = "done"
    /\ Happened("rejected")
    /\ BothCallbacks
    /\ Len(Events("errorInterceptor")) >= 2
    /\ ~Promoted
    /\ Happened("onError")

(***************************************************************************)
(* C14.  removeRequestInterceptor, removeResponseInterceptor and           *)
(* removeErrorInterceptor delete exactly one registration, the first       *)
(* occurrence of the function given, and keep the order of the other       *)
(* entries; given a function that is not registered they change nothing.   *)
(* The other two chains are never touched.                                 *)
(***************************************************************************)
RemoveOps ==
    {"removeRequestInterceptor", "removeResponseInterceptor",
     "removeErrorInterceptor"}

\* The chain (1, 2 or 3 of Chains) a registry operation addresses.
ChainOf(op) ==
    CASE op \in {"addRequestInterceptor", "removeRequestInterceptor"} -> 1
      [] op \in {"addResponseInterceptor", "removeResponseInterceptor"} -> 2
      [] OTHER -> 3

Occurrences(chain, fn) == Cardinality({i \in DOMAIN chain : chain[i] = fn})

C14_RemoveFirstOccurrence ==
    LET last == history.lastOp
        k == ChainOf(last.op)
        before == last.before[k]
        after == Chains[k]
        first(i) == before[i] = last.fn /\ \A j \in 1..(i - 1) : before[j] # last.fn
    IN last.op \in RemoveOps
       => /\ \A j \in {1, 2, 3} \ {k} : Chains[j] = last.before[j]
          /\ Occurrences(before, last.fn) = 0 => after = before
          /\ Occurrences(before, last.fn) > 0
                => \E i \in DOMAIN before :
                      /\ first(i)
                      /\ after = SubSeq(before, 1, i - 1)
                                    \o SubSeq(before, i + 1, Len(before))

C14_Witness ==
    LET last == history.lastOp
        k == ChainOf(last.op)
    IN /\ last.op \in RemoveOps
       /\ Occurrences(last.before[k], last.fn) = 2
       /\ Len(last.before[k]) = 3
       /\ last.before[k][1] = last.fn
       /\ last.before[k][2] # last.fn
       /\ Occurrences(Chains[k], last.fn) = 1

(***************************************************************************)
(* C15.  After clearInterceptors the three chains are empty together (the  *)
(* client is in the state it had after construction) and every call made   *)
(* before the next add* runs no interceptor: the transport gets the        *)
(* caller's url, params and data with empty per-call headers, and the      *)
(* callback gets the plain normalized response or error.                   *)
(***************************************************************************)
InterceptorEvents ==
    {"requestInterceptor", "responseInterceptor", "errorInterceptor", "warn"}

C15_ClearedBehavesAsFresh ==
    history.cleared
    => /\ requestInterceptors = <<>>
       /\ responseInterceptors = <<>>
       /\ errorInterceptors = <<>>
       /\ \A i \in DOMAIN Log : Log[i].ev \notin InterceptorEvents
       /\ Happened("transport")
             => /\ Sent.method = call.method
                /\ Sent.url = call.url
                /\ Sent.headers = Some(<<>>)
                /\ Sent.timeout = None
                /\ Sent.params = call.params
                /\ Sent.data = call.data
       /\ \A i \in DOMAIN Log :
             /\ IsEvent(i, "onSuccess")
                   => Log[i].arg = extractResponseData(Events("resolved")[1].arg)
             /\ (IsEvent(i, "onError") /\ Happened("rejected"))
                   => Log[i].arg = extractErrorData(Events("rejected")[1].arg)

C15_Witness ==
    /\ history.cleared
    /\ call.pc = "done"
    /\ call.method = "GET"
    /\ call.params # None
    /\ Happened("rejected")
    /\ Happened("onError")

(***************************************************************************)
(* C16.  get and delete tell a callbacks object from a params object by    *)
(* its keys: a second argument with an `onSuccess` or `onError` key is the *)
(* callbacks object, no query parameters are sent and the third argument   *)
(* is ignored; any other second argument is sent as the query parameters   *)
(* and the third argument (empty when omitted) supplies the callbacks.     *)
(***************************************************************************)
HasCallbackKey(argument) ==
    argument # None /\ ("onSuccess" \in argument[1] \/ "onError" \in argument[1])

\* The callbacks the claim says are in force.
ClaimedCallbacks ==
    IF HasCallbackKey(call.arg2) THEN call.arg2[1]
    ELSE IF call.arg3 # None THEN call.arg3[1] ELSE {}

C16_SecondArgumentByKeys ==
    call.method \in {"GET", "DELETE"}
    => /\ (Happened("transport") /\ requestInterceptors = <<>>)
             => Sent.params = IF HasCallbackKey(call.arg2) THEN None
                              ELSE call.arg2
       /\ \A i \in DOMAIN Log :
             Log[i].ev \in CallbackKeys => Log[i].ev \in ClaimedCallbacks
       /\ (call.pc = "done" /\ Happened("rejected") /\ ~Promoted
             /\ "onError" \in ClaimedCallbacks) => Happened("onError")
       /\ (call.pc = "done" /\ Normalized /\ ~ResponseInterceptorRaised
             /\ "onSuccess" \in ClaimedCallbacks) => Happened("onSuccess")

C16_Witness ==
    /\ call.method = "GET"
    /\ call.pc = "done"
    /\ call.arg2 = Some({"onError"})
    /\ call.arg3 = Some({"onSuccess"})
    /\ Happened("resolved")
    /\ Sent.params = None
    /\ ~Happened("onSuccess")

(***************************************************************************)
(* Reading the log of the GraphQL call.                                    *)
(***************************************************************************)
GLog == gql.log
GEvents(kind) == SelectSeq(GLog, LAMBDA e : e.ev = kind)
GHappened(kind) == \E i \in DOMAIN GLog : GLog[i].ev = kind
GCallbackRaised ==
    \E i \in DOMAIN GLog : GLog[i].ev \in CallbackKeys /\ GLog[i].raised

\* The settlement (resolved or rejected) of the n-th transport request.
Settlement(kind, n) ==
    SelectSeq(GLog, LAMBDA e : e.ev = kind /\ e.request = n)

(***************************************************************************)
(* C17.  CubeGraphQLClient.query dispatches exactly one transport request  *)
(* per call, a POST to the `url` argument whose body carries the           *)
(* synthesized query text, and the callback value comes from that request. *)
(***************************************************************************)
C17_CubeSingleRequest ==
    LET sent == GEvents("transport")
    IN gql.client = "CubeGraphQLClient"
       => /\ Len(sent) = 1
          /\ sent[1].method = "POST"
          /\ sent[1].url = gql.url[1]
          /\ sent[1].body.query = gql.text
          /\ \A i \in DOMAIN GLog :
                GLog[i].ev \in CallbackKeys
                    => Settlement("resolved", 1) \o Settlement("rejected", 1)
                          = <<GLog[i - 1]>>

(***************************************************************************)
(* C18.  For GraphQLClient.query, GraphQLClient.mutate and                 *)
(* CubeGraphQLClient.query, a transport failure is normalized and given to *)
(* the supplied onError exactly once, and the promise of the call does not *)
(* reject (callbacks that return normally).                                *)
(***************************************************************************)
C18_GraphQLFailureToOnError ==
    LET failed == GEvents("rejected")
    IN (gql.pc = "done" /\ failed # <<>> /\ ~GCallbackRaised)
       => /\ gql.promise = "fulfilled"
          /\ ~GHappened("onSuccess")
          /\ "onError" \in gql.callbacks
                => /\ Len(GEvents("onError")) = 1
                   /\ GEvents("onError")[1].arg
                         = ClaimedErrorValue(failed[1].arg)

(***************************************************************************)
(* C19 as claimed.  A GraphQL call runs the interceptors registered on the *)
(* request pipeline: the request chain before dispatch, the response chain *)
(* on success, the error chain with promotion on failure.                  *)
(***************************************************************************)
GFns(kind) == [i \in DOMAIN GEvents(kind) |-> GEvents(kind)[i].fn]

C20_CubeUnwrapsOneLevel ==
    \A i \in DOMAIN GLog :
        GLog[i].ev = "onSuccess"
        => LET response == Settlement("resolved", gql.requests)[1].arg
               payload == response.data
               hasData == IsMap(payload) /\ "data" \in DOMAIN payload
           IN /\ GLog[i].arg.status = response.status
              /\ (gql.client = "GraphQLClient" /\ hasData)
                    => GLog[i].arg.data = Some(payload.data)
              /\ (gql.client = "CubeGraphQLClient" /\ hasData
                    /\ IsMap(payload.data) /\ "cube" \in DOMAIN payload.data)
                    => GLog[i].arg.data = Some(payload.data.cube)

C20_Witness ==
    /\ gql.client = "CubeGraphQLClient"
    /\ gql.pc = "done"
    /\ GHappened("onSuccess")
    /\ GEvents("onSuccess")[1].arg.data = Some([rows |-> <<"r1", "r2">>])
    /\ GEvents("onSuccess")[1].arg.status = 200

(***************************************************************************)
(* C21.  GraphQLClient.mutate is observationally identical to              *)
(* GraphQLClient.query: at every point of a mutate call, what has been     *)
(* posted, which callbacks have run and with which values, and how the     *)
(* promise stands are what GraphQLClient.query produces for the same text, *)
(* variables, callbacks and transport outcome.                             *)
(***************************************************************************)
GRaised(kind) == GHappened(kind) /\ GEvents(kind)[1].raised

QueryRun(text, variables, callbacks) ==
    LET started == GraphQLClient_query(
                       NewGql("GraphQLClient", "query", None, text, variables,
                              callbacks),
                       text, variables)
    IN IF GHappened("resolved")
       THEN GraphQLResolved(started, GEvents("resolved")[1].arg,
                            GRaised("onSuccess"), GRaised("onError"))
       ELSE IF GHappened("rejected")
            THEN GraphQLCatch(
                    [started EXCEPT !.log = Append(@, GEvents("rejected")[1])],
                    GEvents("rejected")[1].arg, GRaised("onError"))
            ELSE started

C21_MutateAsQuery ==
    gql.op = "mutate"
    => [gql EXCEPT !.op = "query"]
          = QueryRun(gql.text, gql.variables, gql.callbacks)

C21_Witness ==
    /\ gql.op = "mutate"
    /\ gql.client = "GraphQLClient"
    /\ gql.pc = "done"
    /\ gql.variables # None
    /\ GHappened("resolved")
    /\ GHappened("onSuccess")
    /\ ~GRaised("onSuccess")

(***************************************************************************)
(* C22.  The promise returned by a verb is pending for as long as the      *)
(* pipeline of the call runs.  When it has settled, the error chain has    *)
(* been walked to its end or to the interceptor that recovered, every      *)
(* interceptor invoked has settled, and the selected callback, when        *)
(* supplied, has been invoked as the last thing the call did; the promise  *)
(* rejects only when that callback raised.  With no callbacks supplied the *)
(* promise is fulfilled on success and on failure, and nothing is invoked. *)
(***************************************************************************)
Settled == call.promise \in {"fulfilled", "rejected"}

\* The callback the pipeline selects: onSuccess on the success path and
\* after a promotion, onError otherwise.
SelectedCallback ==
    IF call.error = NoError \/ "data" \in DOMAIN call.processedError
    THEN "onSuccess" ELSE "onError"

C22_SettlesAfterPipeline ==
    LET er == Events("errorInterceptor")
        last == Log[Len(Log)]
    IN /\ call.pc \in {"transport", "errorPhase"} => call.promise = "pending"
       /\ Settled
            => /\ call.pc = "done"
               /\ call.error # NoError
                     => \/ Fns(er) = errorInterceptors
                        \/ er # <<>> /\ Recovers(er[Len(er)])
               /\ SelectedCallback \in call.callbacks
                     => /\ last.ev = SelectedCallback
                        /\ call.promise = "rejected" <=> last.raised
               /\ SelectedCallback \notin call.callbacks
                     => call.promise = "fulfilled"
               /\ call.callbacks = {}
                     => /\ ~Happened("onSuccess")
                        /\ ~Happened("onError")

\* No callbacks supplied, the transport failed, two error interceptors were
\* awaited in turn and the promise is fulfilled.
C22_Witness ==
    /\ call.pc = "done"
    /\ call.callbacks = {}
    /\ Happened("rejected")
    /\ Len(Events("errorInterceptor")) >= 2
    /\ call.promise = "fulfilled"

C22_WitnessSuccess ==
    /\ call.pc = "done"
    /\ call.callbacks = {}
    /\ Happened("resolved")
    /\ call.error = NoError
    /\ call.promise = "fulfilled"

(***************************************************************************)
(* C23.  Two calls in flight on one client do not interfere.  At every     *)
(* point, each call is where it would be had it run alone on the same      *)
(* chains with its own arguments and its own transport outcome: same       *)
(* config built and folded, same request sent, same interceptors run, same *)
(* callbacks invoked with the same values.  A finished call has invoked    *)
(* its own selected callback exactly once (callbacks that return           *)
(* normally), and no step of a call changes a chain.                       *)
(***************************************************************************)
EventsOf(c, kind) == SelectSeq(c.log, LAMBDA e : e.ev = kind)

RECURSIVE SettleTimes(_, _, _)
SettleTimes(c, n, cbRaises) ==
    IF n = 0 \/ c.pc # "errorPhase" THEN c
    ELSE SettleTimes(applyErrorInterceptors(c, errorInterceptors, cbRaises),
                     n - 1, cbRaises)

\* The call c run alone: started with the arguments c was started with,
\* resumed with the transport outcome c got and as many settled error
\* interceptors as c has seen, the callbacks raising as chosen.
Alone(c, successRaises, cbRaises) ==
    LET started ==
            IF c.method \in {"GET", "DELETE"}
            THEN StartWithParams(c.method, c.url, c.arg2, c.arg3, cbRaises)
            ELSE StartWithData(c.method, c.url, c.data, c.callbacks, cbRaises)
        resolved == EventsOf(c, "resolved")
        rejected == EventsOf(c, "rejected")
        completed ==
            IF resolved # <<>>
            THEN Resolved(started, resolved[1].arg, successRaises, cbRaises)
            ELSE IF rejected # <<>>
                 THEN Catch([started EXCEPT !.log = Append(@, rejected[1])],
                            rejected[1].arg, errorInterceptors, cbRaises)
                 ELSE started
        settled == Len(EventsOf(c, "errorInterceptor"))
                      - (IF c.pc = "errorPhase" THEN 1 ELSE 0)
    IN SettleTimes(completed, settled, cbRaises)

RunsAsAlone(c) ==
    c.pc # "idle"
    => \E successRaises \in BOOLEAN, cbRaises \in BOOLEAN :
           c = Alone(c, successRaises, cbRaises)

OwnCallbackOnce(c) ==
    LET callbacks == SelectSeq(c.log, LAMBDA e : e.ev \in CallbackKeys)
        selected == IF c.error = NoError \/ "data" \in DOMAIN c.processedError
                    THEN "onSuccess" ELSE "onError"
    IN (c.pc = "done" /\ \A i \in DOMAIN callbacks : ~callbacks[i].raised)
       => IF selected \in c.callbacks
          THEN /\ Len(callbacks) = 1
               /\ callbacks[1].ev = selected
          ELSE callbacks = <<>>

C23_NoInterference ==
    /\ [](/\ RunsAsAlone(call) /\ RunsAsAlone(second)
          /\ OwnCallbackOnce(call) /\ OwnCallbackOnce(second))
    /\ [][(call.pc # "idle" \/ second.pc # "idle") => UNCHANGED Chains]_vars

\* Both calls are in flight at once, each suspended on an error interceptor
\* after its own transport failure, and each holds its own normalized error.
C23_Witness ==
    /\ call.pc = "errorPhase" /\ second.pc = "errorPhase"
    /\ requestInterceptors # <<>>
    /\ EventsOf(call, "rejected") # <<>>
    /\ EventsOf(second, "rejected") # <<>>
    /\ EventsOf(call, "rejected")[1].arg.code = "ECONNABORTED"
    /\ EventsOf(second, "rejected")[1].arg.code = "ERR_BAD_REQUEST"
    /\ call.error.status = 500
    /\ second.error.status = 404

\* Both calls have finished, each having handed its own outcome to its own
\* callback.
C23_WitnessFinished ==
    /\ call.pc = "done" /\ second.pc = "done"
    /\ EventsOf(call, "onError") # <<>>
    /\ EventsOf(second, "onSuccess") # <<>>
    /\ EventsOf(second, "onSuccess")[1].arg.status = 201

(***************************************************************************)
(* Reading the text a synthesizer function returned.                       *)
(***************************************************************************)
\* The string a text stands for.
RECURSIVE Flat(_)
Flat(text) == IF text = <<>> THEN "" ELSE text[1] \o Flat(Tail(text))

RECURSIVE Concat(_)
Concat(seqs) == IF seqs = <<>> THEN <<>> ELSE seqs[1] \o Concat(Tail(seqs))

\* The pieces of a projection block that are white space and braces.
BlockLayout == {"    ", " {\n      ", "\n      ", "\n    }", "\n"}

Count(text, piece) == Len(SelectSeq(text, LAMBDA t : t = piece))

(***************************************************************************)
(* C24.  buildFields renders one block `entity { ... }` per entity that    *)
(* has a field mapped to true, in mapping order, listing exactly the field *)
(* names mapped to true, in mapping order; a field mapped to false or      *)
(* undefined is not listed and an entity with no selected field has no     *)
(* block, not even an empty one.                                           *)
(***************************************************************************)
\* The field names of an entity entry that are mapped to true.
MappedToTrue(entry) ==
    LET chosen == SelectSeq(entry[2], LAMBDA f : f[2] = BooleanValue(TRUE))
    IN [i \in DOMAIN chosen |-> chosen[i][1]]

ClaimedProjection(fields) ==
    LET kept == SelectSeq(fields, LAMBDA e : MappedToTrue(e) # <<>>)
    IN Concat([i \in DOMAIN kept |-> <<kept[i][1]>> \o MappedToTrue(kept[i])])

C24_FieldProjection ==
    synth.fn = "buildFields"
    => LET text == synth.output
           names == SelectSeq(text, LAMBDA t : t \notin BlockLayout)
           kept == SelectSeq(synth.input, LAMBDA e : MappedToTrue(e) # <<>>)
       IN /\ names = ClaimedProjection(synth.input)
          /\ Count(text, " {\n      ") = Len(kept)
          /\ Count(text, "\n    }") = Len(kept)
          /\ \A i \in DOMAIN text :
                text[i] = " {\n      "
                    => /\ text[i - 1] = kept[Count(SubSeq(text, 1, i),
                                                   " {\n      ")][1]
                       /\ text[i + 1] \notin BlockLayout
          /\ synth.input = DocFields
                => Flat(text)
                      = "    vendas {\n      total\n      data\n      status\n    }\n    cliente {\n      nome\n      email\n    }"

\* {sales: {total: true, status: undefined}, cliente: {nome: false}}: one
\* block, for sales, listing total alone.
C24_Witness ==
    /\ synth.fn = "buildFields"
    /\ synth.input = <<<<"sales", <<<<"total", BooleanValue(TRUE)>>,
                                    <<"status", Undefined>>>>>>,
                       <<"cliente", <<<<"nome", BooleanValue(FALSE)>>>>>>>>
    /\ Flat(synth.output) = "    sales {\n      total\n    }"

(***************************************************************************)
(* Reading the text buildCubeQuery returned: the pieces between the        *)
(* opening ` {` of the root field and its closing brace are the body.      *)
(***************************************************************************)
BodyStart(text) == CHOOSE i \in DOMAIN text : text[i] = " {\n"
Body(text) == SubSeq(text, BodyStart(text) + 1, Len(text) - 1)
Arguments(text) == SubSeq(text, 2, BodyStart(text) - 1)

Present(options, key) == key \in DOMAIN options

\* `fields` is absent or is the empty mapping.
NoFields(options) == ~Present(options, "fields") \/ options.fields = <<>>

(***************************************************************************)
(* C25.  When `fields` is absent or empty and defaultEntity is present,    *)
(* the body of the synthesized query is the block                          *)
(* `defaultEntity { defaultFields... }`; whether the default block is      *)
(* rendered depends on the presence of defaultEntity: with defaultEntity   *)
(* present a block is rendered, with defaultEntity absent none is, and     *)
(* never one for an entity named `undefined`.                              *)
(***************************************************************************)
C25_DefaultByEntity ==
    (synth.fn = "buildCubeQuery" /\ NoFields(synth.input))
    => LET options == synth.input
           body == Body(synth.output)
       IN IF Present(options, "defaultEntity")
          THEN /\ Len(body) >= 3
               /\ SubSeq(body, 1, 3)
                     = <<"    ", options.defaultEntity, " {\n      ">>
               /\ Present(options, "defaultFields")
                     => SelectSeq(body, LAMBDA t : t \notin BlockLayout)
                           = <<options.defaultEntity>> \o options.defaultFields
          ELSE /\ Blank(body)
               /\ \A i \in DOMAIN body : body[i] # "undefined"

(***************************************************************************)
(* C26.  buildWhereClause renders every operator/value pair as             *)
(* `operator: <literal>` inside `field: {...}` inside `entity: {...}`.  An *)
(* array value is the bracketed, comma-joined list of its raw unquoted     *)
(* elements; a scalar is quoted when it is a string and unquoted when it   *)
(* is a number or a boolean.  {sales: {total: {greaterThan: 1000}}} gives  *)
(* `total: {greaterThan: 1000}` inside the `sales` block.                  *)
(***************************************************************************)
RECURSIVE JoinStrings(_, _)
JoinStrings(strings, separator) ==
    IF strings = <<>> THEN ""
    ELSE IF Len(strings) = 1 THEN strings[1]
    ELSE strings[1] \o separator \o JoinStrings(Tail(strings), separator)

Unquoted(value) ==
    CASE value.kind = "string" -> value.text
      [] value.kind = "number" -> ToString(value.number)
      [] OTHER -> IF value.bool THEN "true" ELSE "false"

ClaimedLiteral(value) ==
    CASE value.kind = "array" ->
           "[" \o JoinStrings([i \in DOMAIN value.items |->
                                  Unquoted(value.items[i])], ", ") \o "]"
      [] value.kind = "string" -> "\"" \o value.text \o "\""
      [] OTHER -> Unquoted(value)

\* `key: {...}` around the rendering of each entry of a mapping.
ClaimedBlock(key, entries, Rendering(_)) ==
    key \o ": {"
        \o JoinStrings([i \in DOMAIN entries |-> Rendering(entries[i])], ", ")
        \o "}"

ClaimedPair(pair) == pair[1] \o ": " \o ClaimedLiteral(pair[2])
ClaimedField(entry) == ClaimedBlock(entry[1], entry[2], ClaimedPair)
ClaimedEntity(entry) == ClaimedBlock(entry[1], entry[2], ClaimedField)

\* Entities that carry at least one field filter.
Filtered(where) == SelectSeq(where, LAMBDA e : e[2] # <<>>)

C26_WitnessLiterals ==
    /\ synth.fn = "buildWhereClause"
    /\ \/ Flat(synth.output) = "where: {sales: {total: {equals: [1, 2]}}}"
       \/ Flat(synth.output) = "where: {sales: {total: {equals: true}}}"
       \/ Flat(synth.output) = "where: {sales: {total: {equals: \"PJ\"}}}"

(***************************************************************************)
(* C27.  As the examples documented on buildWhereClause and buildCubeQuery *)
(* show, the string elements of an array filter value are rendered as      *)
(* quoted string literals, like scalar strings:                            *)
(* {status: {in: ['APROVADA', 'CONCLUIDA']}} renders                       *)
(* `in: ["APROVADA", "CONCLUIDA"]`.                                        *)
(***************************************************************************)
DocumentedLiteral(value) ==
    IF value.kind = "array"
    THEN "[" \o JoinStrings([i \in DOMAIN value.items |->
                               ClaimedLiteral(value.items[i])], ", ") \o "]"
    ELSE ClaimedLiteral(value)

DocumentedPair(pair) == pair[1] \o ": " \o DocumentedLiteral(pair[2])
DocumentedField(entry) == ClaimedBlock(entry[1], entry[2], DocumentedPair)
DocumentedEntity(entry) == ClaimedBlock(entry[1], entry[2], DocumentedField)

C27_ArrayStringsQuoted ==
    (synth.fn = "buildWhereClause" /\ Filtered(synth.input) # <<>>)
    => Flat(synth.output)
          = ClaimedBlock("where", Filtered(synth.input), DocumentedEntity)

(***************************************************************************)
(* C28.  `limit: <n>` appears among the arguments of the synthesized query *)
(* exactly when options.limit is truthy, and `offset: <n>` exactly when    *)
(* options.offset is; a limit or an offset of 0 gives the text the same    *)
(* options give without that key.                                          *)
(***************************************************************************)
\* The number rendered after the piece `label` in the arguments, if any.
Rendered(text, label) ==
    LET arguments == Arguments(text)
    IN IF \E i \in DOMAIN arguments : arguments[i] = label
       THEN Some(arguments[(CHOOSE i \in DOMAIN arguments :
                               arguments[i] = label) + 1])
       ELSE None

ClaimedClause(options, key) ==
    IF Present(options, key) /\ options[key] # 0
    THEN Some(ToString(options[key])) ELSE None

ClaimedClauses(options) ==
    LET number(label, key) ==
            IF ClaimedClause(options, key) = None THEN ""
            ELSE label \o ClaimedClause(options, key)[1]
        where == IF Present(options, "where")
                 THEN Flat(buildWhereClause(options.where)) ELSE ""
    IN SelectSeq(<<number("limit: ", "limit"), number("offset: ", "offset"),
                   where>>,
                 LAMBDA clause : clause # "")

C29_Assembly ==
    synth.fn = "buildCubeQuery"
    => LET options == synth.input
           text == synth.output
           clauses == ClaimedClauses(options)
           projection == IF Present(options, "fields")
                         THEN Flat(buildFields(options.fields)) ELSE ""
       IN /\ text[1] = "query CubeQuery {\n      cube"
          /\ text[Len(text)] = "\n      }\n    }"
          /\ Count(text, "query CubeQuery {\n      cube") = 1
          /\ Count(text, " {\n") = 1
          /\ Flat(Arguments(text))
                = IF clauses = <<>> THEN ""
                  ELSE "(\n        " \o JoinStrings(clauses, "\n        ")
                          \o "\n      )"
          /\ projection # "" => Flat(Body(text)) = projection

\* The three clauses and a projection.
C29_Witness ==
    /\ synth.fn = "buildCubeQuery"
    /\ synth.input
          = [limit |-> 20, offset |-> 5, where |-> SalesWhere,
             fields |-> <<<<"sales", <<<<"total", BooleanValue(TRUE)>>,
                                       <<"status", BooleanValue(FALSE)>>>>>>>>]
    /\ Flat(synth.output)
          = "query CubeQuery {\n      cube(\n        limit: 20\n        offset: 5\n        where: {sales: {total: {greaterThan: 1000}}}\n      ) {\n    sales {\n      total\n    }\n      }\n    }"

\* No clause at all: `cube` is followed by its body directly.
C29_WitnessNoArguments ==
    /\ synth.fn = "buildCubeQuery"
    /\ synth.input
          = [limit |-> 0, where |-> <<>>,
             fields |-> <<<<"sales", <<<<"total", BooleanValue(TRUE)>>,
                                       <<"status", BooleanValue(FALSE)>>>>>>>>]
    /\ Flat(synth.output)
          = "query CubeQuery {\n      cube {\n    sales {\n      total\n    }\n      }\n    }"

InSeq(x, seq) == \E i \in DOMAIN seq : seq[i] = x

C31_PerCallHeadersSent ==
    (call.method = "POST" /\ "headers" \in DOMAIN call.options
        /\ Happened("transport"))
    => \A i \in DOMAIN call.options.headers :
           /\ Sent.headers # None
           /\ InSeq(call.options.headers[i], Sent.headers[1])

(***************************************************************************)
(* C32.  Interceptor chains belong to one instance.  An add, remove or     *)
(* clear on one ApiClient changes no chain of the other, so each           *)
(* instance's chains hold only what was registered on that instance; and   *)
(* every interceptor a call invokes is registered on the instance the call *)
(* was made on.                                                            *)
(***************************************************************************)
Elements(seq) == {seq[i] : i \in DOMAIN seq}

ChainEventOf ==
    [requestInterceptors |-> "requestInterceptor",
     responseInterceptors |-> "responseInterceptor",
     errorInterceptors |-> "errorInterceptor"]

OwnChain(chain) ==
    CASE chain = "requestInterceptors" -> requestInterceptors
      [] chain = "responseInterceptors" -> responseInterceptors
      [] OTHER -> errorInterceptors

OwnFns ==
    [requestInterceptors |-> PipelineRequestFns,
     responseInterceptors |-> PipelineResponseFns,
     errorInterceptors |-> PipelineErrorFns]

C32_ChainsPerInstance ==
    /\ [](\A chain \in ChainNames :
            /\ Elements(OwnChain(chain)) \subseteq OwnFns[chain]
            /\ Elements(other[chain]) \subseteq OtherFns[chain]
            /\ Elements(Fns(Events(ChainEventOf[chain])))
                  \subseteq Elements(OwnChain(chain)))
    /\ [][/\ Chains' # Chains => other' = other
          /\ other' # other => (Chains' = Chains /\ call' = call)]_vars

\* A call on the first instance has run its own three interceptors while the
\* other instance holds three different ones.
C32_Witness ==
    /\ call.pc = "done"
    /\ OtherRegistered = 3
    /\ other.requestInterceptors # <<>>
    /\ other.errorInterceptors # <<>>
    /\ Happened("requestInterceptor")
    /\ Happened("errorInterceptor")
    /\ Registered >= 2

(***************************************************************************)
(* C33.  A recovery Response goes to onSuccess as the promoting error      *)
(* interceptor returned it: an onSuccess invoked after the error phase     *)
(* began directly follows the promoting interceptor and receives its       *)
(* result; no response interceptor runs once the error phase has begun,    *)
(* and none runs at all in a call whose transport failed.                  *)
(***************************************************************************)
InErrorPhase(i) == \E j \in 1..(i - 1) : Log[j].ev = "errorInterceptor"

C33_RecoveryUnchanged ==
    /\ Happened("rejected") => ~Happened("responseInterceptor")
    /\ \A i \in DOMAIN Log :
          InErrorPhase(i) =>
             /\ Log[i].ev # "responseInterceptor"
             /\ Log[i].ev = "onSuccess" =>
                   /\ Log[i - 1].ev = "errorInterceptor"
                   /\ Recovers(Log[i - 1])
                   /\ Log[i].arg = ErrorOutcome(Log[i - 1]).value

\* The transport failed on a client holding a response interceptor, an error
\* interceptor promoted, and onSuccess received the recovery Response.
C33_Witness ==
    /\ call.pc = "done"
    /\ Happened("rejected")
    /\ responseInterceptors # <<>>
    /\ Log[Len(Log)].ev = "onSuccess"
    /\ Log[Len(Log)].arg = RecoveryResponse

\* The same after a successful transport whose response interceptors ran and
\* whose onSuccess raised.
C33_WitnessAfterSuccess ==
    /\ call.pc = "done"
    /\ Happened("resolved")
    /\ Happened("responseInterceptor")
    /\ Log[Len(Log)].ev = "onSuccess"
    /\ Log[Len(Log)].arg = RecoveryResponse

(***************************************************************************)
(* C34.  An error interceptor that returns nothing is handled like one     *)
(* that raises: the call goes on with the last value an interceptor        *)
(* returned (the normalized error when none did), hands it to onError or   *)
(* onSuccess, and its promise is rejected only by a raising callback.      *)
(***************************************************************************)
RECURSIVE LastProduced(_, _)
LastProduced(er, n) ==
    IF n = 0 THEN call.error
    ELSE IF ~ErrorOutcome(er[n]).raised /\ IsMap(ErrorOutcome(er[n]).value)
         THEN ErrorOutcome(er[n]).value
         ELSE LastProduced(er, n - 1)

C34_VoidLikeRaising ==
    (/\ call.pc = "done"
     /\ BothCallbacks
     /\ \E i \in DOMAIN Log : IsEvent(i, "errorInterceptor")
                                /\ ErrorOutcome(Log[i]).value = JsUndefined)
    => LET last == Log[Len(Log)]
           er == Events("errorInterceptor")
       IN /\ last.ev \in {"onSuccess", "onError"}
          /\ last.arg = LastProduced(er, Len(er))
          /\ call.promise = "rejected" => last.raised

(***************************************************************************)
(* C35.  The request phase of a call runs the request chain as it is when  *)
(* the verb is called and never again; the response phase (there is one    *)
(* when the answer could be normalized) runs the response chain as it is   *)
(* when the transport resolves, and the error                              *)
(* phase starts on the error chain as it is when the catch block is        *)
(* entered: an interceptor added, removed or cleared while the call awaits *)
(* the transport is applied, respectively not applied, to that call.       *)
(***************************************************************************)
ReadsChainsAtSettle ==
    /\ (call.pc = "idle" /\ call'.pc # "idle")
          => Fns(EventsOf(call', "requestInterceptor")) = requestInterceptors
    /\ (call.pc # "idle" /\ call'.pc # "idle")
          => EventsOf(call', "requestInterceptor")
                = EventsOf(call, "requestInterceptor")
    /\ (/\ call.pc = "transport"
         /\ EventsOf(call', "resolved") # <<>>
         /\ ~extractResponseDataRaises(EventsOf(call', "resolved")[1].arg))
          => Fns(EventsOf(call', "responseInterceptor")) = responseInterceptors
    /\ (call.pc = "transport" /\ call'.caught # None)
          => LET er == EventsOf(call', "errorInterceptor")
             IN IF errorInterceptors = <<>> THEN er = <<>> /\ call'.pc = "done"
                ELSE Len(er) = 1 /\ er[1].fn = errorInterceptors[1]

C35_ChainsReadAtSettle == [][ReadsChainsAtSettle]_vars

\* While the call awaited the transport a response interceptor was added and
\* the request chain was changed: the added response interceptor ran, the
\* request phase had run the chain of the call's start.
C35_Witness ==
    /\ call.pc = "done"
    /\ Happened("resolved")
    /\ call.started[2] = <<>>
    /\ Happened("responseInterceptor")
    /\ call.started[1] # <<>>
    /\ requestInterceptors = <<>>
    /\ Fns(Events("requestInterceptor")) = call.started[1]

\* Interceptors registered at the call's start and removed during the wait
\* did not run: neither the response interceptor nor the error one.
C35_WitnessRemoved ==
    /\ call.pc = "done"
    /\ call.started[3] # <<>>
    /\ Happened("rejected")
    /\ call.caught = Some(<<>>)
    /\ ~Happened("errorInterceptor")

(***************************************************************************)
(* C36.  When error interceptors are removed while the error phase of a    *)
(* call is suspended (the chain held distinct interceptors when the catch  *)
(* block was entered) and no interceptor promoted, every interceptor still *)
(* registered when the call ends has been invoked exactly once for it.     *)
(***************************************************************************)
C36_RemovalSkipsNone ==
    (/\ call.pc = "done"
     /\ call.caught # None
     /\ Cardinality(Elements(call.caught[1])) = Len(call.caught[1])
     /\ errorInterceptors # call.caught[1]
     /\ "data" \notin DOMAIN call.processedError)
    => \A fn \in Elements(errorInterceptors) :
          Count(Fns(Events("errorInterceptor")), fn) = 1

(***************************************************************************)
(* C37 (as stated).  Whatever a request interceptor writes to              *)
(* config.method, the transport request of a call carries the verb of the  *)
(* entry point, and a finished call has issued exactly one transport       *)
(* request.                                                                *)
(***************************************************************************)
VerbOfEntryPoint ==
    \A i \in DOMAIN Log : Log[i].ev = "transport" => Log[i].method = call.method

C37_VerbFixedOneRequest ==
    /\ VerbOfEntryPoint
    /\ call.pc = "done" => Len(Events("transport")) = 1

(***************************************************************************)
(* C37 (amended).  The transport request of a call carries the verb of the *)
(* entry point whatever a request interceptor wrote to config.method; a    *)
(* call issues one transport request when its request chain returns and    *)
(* none when a request interceptor raises, never more than one.            *)
(***************************************************************************)
RequestPhaseRaised ==
    \E i \in DOMAIN Log :
        Log[i].ev = "requestInterceptor" /\ RequestOutcome(Log[i]).raised

C37_VerbFixedAtMostOneRequest ==
    /\ VerbOfEntryPoint
    /\ call.pc # "idle" =>
          Len(Events("transport")) = IF RequestPhaseRaised THEN 0 ELSE 1

\* A request interceptor wrote PATCH to config.method and the post was
\* dispatched as a POST.
C37_Witness ==
    /\ call.pc = "done"
    /\ call.method = "POST"
    /\ Happened("requestInterceptor")
    /\ ReturnedConfig.method = "PATCH"
    /\ Len(Events("transport")) = 1
    /\ Sent.method = "POST"

\* A request interceptor raised and the call ended without a transport
\* request.
C37_WitnessNoRequest ==
    /\ call.pc = "done"
    /\ RequestPhaseRaised
    /\ ~Happened("transport")

(***************************************************************************)
(* C38.  Every registry operation acts on its own chain as one step of a   *)
(* replay and leaves the other chains as they were: add* puts the function *)
(* at the end, also when it is registered already, and moves nothing;      *)
(* remove* takes out the first occurrence; clearInterceptors empties the   *)
(* three chains.  By induction on the number of operations each chain is   *)
(* the replay of the operations addressed to it.                           *)
(***************************************************************************)
RECURSIVE WithoutFirst(_, _)
WithoutFirst(chain, fn) ==
    IF chain = <<>> THEN <<>>
    ELSE IF Head(chain) = fn THEN Tail(chain)
    ELSE <<Head(chain)>> \o WithoutFirst(Tail(chain), fn)

ReplayStep(chain, op, fn) ==
    CASE op \in AddOps -> chain \o <<fn>>
      [] op \in RemoveOps -> WithoutFirst(chain, fn)
      [] OTHER -> <<>>

C38_ChainsReplayOwnOperations ==
    LET last == history.lastOp
    IN last.op # "none"
       => \A k \in {1, 2, 3} :
             Chains[k] = IF last.op = "clearInterceptors" \/ k = ChainOf(last.op)
                         THEN ReplayStep(last.before[k], last.op, last.fn)
                         ELSE last.before[k]

\* A function was added to a chain that held it already, next to another
\* function, while another chain was not empty.
C38_Witness ==
    LET last == history.lastOp
        k == ChainOf(last.op)
    IN /\ last.op \in AddOps
       /\ Len(last.before[k]) = 2
       /\ last.before[k][1] = last.fn
       /\ last.before[k][2] # last.fn
       /\ Chains[k] = <<last.fn, last.before[k][2], last.fn>>

\* A function was removed from one chain while the other two were not empty.
C38_WitnessRemove ==
    LET last == history.lastOp
        k == ChainOf(last.op)
    IN /\ last.op \in RemoveOps
       /\ Chains[k] # last.before[k]
       /\ \A j \in {1, 2, 3} \ {k} : Chains[j] # <<>>

(***************************************************************************)
(* C39.  getTokens never returns a pair whose expiresAt is earlier than    *)
(* the time of the call: it returns the stored pair when that has not      *)
(* expired, and otherwise drops it and returns null.  Once the pair is     *)
(* null only setTokens stores one again, so getTokens returns null until   *)
(* then.  After clearAll the tokens and the user data are both null.       *)
(***************************************************************************)
GetTokensStep ==
    /\ now' = now
    /\ storage' # storage
    /\ storage'.lastCall.op = "getTokens"

ReturnsUnexpiredOrNull ==
    GetTokensStep =>
       LET returned == storage'.lastCall.returned
       IN /\ storage'.tokens = returned
          /\ returned # None
                => returned = storage.tokens /\ returned[1].expiresAt >= now
          /\ returned = None
                => \/ storage.tokens = None
                   \/ storage.tokens[1].expiresAt < now

NullUntilSetTokens ==
    (storage.tokens = None /\ storage'.tokens # None)
       => storage'.lastCall.op = "setTokens"

C39_NoExpiredTokens ==
    /\ [](storage.lastCall.op = "clearAll"
            => storage.tokens = None /\ storage.userData = None)
    /\ [][ReturnsUnexpiredOrNull /\ NullUntilSetTokens]_vars

\* The initial pair outlived its 24 hours and was dropped by the read.
C39_Witness ==
    /\ now > TokenLifetime
    /\ storage.lastCall = Returned("getTokens", None, TRUE)
    /\ storage.tokens = None

\* A pair stored by setTokens was returned in its last hour.
C39_WitnessReturned ==
    /\ now = TokenLifetime + 1
    /\ storage.lastCall.op = "getTokens"
    /\ storage.lastCall.returned # None
    /\ storage.lastCall.returned[1].expiresAt = now

\* clearAll on a store that held tokens and user data.
C39_WitnessClearAll ==
    /\ storage.lastCall.op = "clearAll"
    /\ now > 0

====
